---- MODULE Spec2Model ----
(***************************************************************************)
(* ByteGuard (Sansi-28/byteguard): a model of the share ledger served by   *)
(* the Node backend (routes/files: /share, /shared/:id, /received,         *)
(* /receive, /received/:id/view) and of the client-side hybrid cipher      *)
(* pipelines (encrypt-and-upload, share, group share, receive, view).      *)
(*                                                                         *)
(* Spec     the share ledger of the Node backend (SQLite tables, clock).   *)
(* SpecE2E  the client pipelines against the blob store / registry.        *)
(* SpecAuth the sessions, settings and router guards of the Node backend.  *)
(* SpecKeys AuthProvider's key handling at register, login and logout.     *)
(* SpecPayload  FileViewer handed KEM payloads of every length.            *)
(* SpecTamper   stored blobs with one bit flipped, then received or viewed.*)
(* SpecEncrypt  the Encryption page's pipeline, one step at a time.        *)
(* SpecClient   api/client.js requests and the AuthProvider session check. *)
(* SpecViewer   FileViewer's decrypt effect against close and file change. *)
(***************************************************************************)
EXTENDS Integers, Sequences, FiniteSets, TLC

\* ------------------------------------------------------------------------
\* Bounds of the model
\* ------------------------------------------------------------------------

\* Last millisecond the clock reaches (ids are 'SHARE-' + Date.now()).
MaxClock == 2

\* Files uploaded, direct shares created and group shares created (SpecE2E).
MaxUploads == 1
MaxShares == 1
MaxGroupShares == 1

\* Values the client RNG draws before the run ends.
MaxDraws == 8

\* Sessions POST /login creates before the run ends (SpecAuth).
MaxLogins == 2

\* Tabs of one browser profile that run the AuthProvider, and keypairs
\* generated on it before the run ends (SpecKeys).
MaxTabs == 2
MaxKeypairs == 2

\* Encapsulations behind the payloads handed to FileViewer (SpecPayload).
MaxProbeDraws == 2

\* Largest plaintext the transport takes, in bytes (100 MiB scaled down).
MaxPlaintextSize == 3

\* API requests one page has in flight at a time.
MaxInFlight == 2

\* Runs of FileViewer's decrypt effect in one behaviour.
MaxRuns == 3

\* ------------------------------------------------------------------------
\* Values
\* ------------------------------------------------------------------------

Null == "null"

Users == {"alice", "bob", "carol"}

\* Bearer tokens a request may carry; "stale" names no stored session.
Tokens == {"tokA", "tokB", "tokC", "stale"}

\* crypto.randomBytes(3).toString('hex').toUpperCase(): two of the 2^24 codes.
ShareCodes == {"A1B2C3", "D4E5F6"}

\* File ids a request body may name (0 is falsy in JS).
FileIds == 0..1

\* Recipients a share request may name (Null: the field is missing).
Recipients == {"bob", Null}

VARIABLES
    sessions,        \* sessions table: token -> user id
    file_history,    \* file_history table: set of rows
    shared_files,    \* shared_files table: set of rows (id is the primary key)
    received_files,  \* received_files table: set of rows (id is the primary key)
    now,             \* the server clock, milliseconds (Date.now())
    revoked          \* history: share codes of rows removed by DELETE /shared/:id

ledgerVars == <<sessions, file_history, shared_files, received_files, now, revoked>>

VARIABLES
    keystore,        \* client IndexedDB 'kyberKeys': user id -> keypair
    registry,        \* Identity & Key Registry: user id -> base64 public key
    files,           \* Blob Store: file id -> file record with its blob
    shares,          \* Share Ledger: direct share records
    group_shares,    \* Share Ledger: group share records
    gshare,          \* GroupShareFileModal.submit in flight: its locals
    rng,             \* draws the client RNG has made (every draw is fresh)
    lastOutcome,     \* what the last decrypt pipeline handed to the user
    uploads          \* history: file id -> plaintext and DEK of the upload

e2eVars == <<keystore, registry, files, shares, group_shares, gshare, rng,
             lastOutcome, uploads>>

VARIABLES
    resp,            \* the last answer of the Node backend: request and status
    issued,          \* tokens POST /login has drawn: token n was issued to issued[n]
    loggedOut,       \* history: bearer tokens POST /logout was called with
    user_settings    \* user_settings table: user id -> row

authVars == <<issued, loggedOut, user_settings>>

VARIABLES
    auth,            \* AuthProvider per tab: the register/login run in flight
    accounts,        \* Identity & Key Registry: the registered researcher ids
    sent,            \* history: key material the client put in request bodies
    generated,       \* history: user id -> keypairs generated on this host
    firstStored      \* history: user id -> the first keypair the store held

keyVars == <<auth, accounts, sent, generated, firstStored>>

VARIABLES
    probe,           \* the payload handed to a decrypt pipeline and what came of it
    encRun,          \* Encryption page: the run of encrypt and its working memory
    browser,         \* api/client.js and AuthProvider: localStorage, user, requests
    viewer           \* FileViewer: its state and the runs of its decrypt effect

pageVars == <<probe, encRun, browser, viewer>>

\* The client's state, what the handlers of routes/files leave alone, and
\* what the client pipelines leave alone.
clientVars == <<e2eVars, keyVars, pageVars>>
outsideLedger == <<clientVars, authVars>>
outsideE2E == <<ledgerVars, resp, authVars, keyVars, pageVars>>

\* ------------------------------------------------------------------------
\* Client: crypto/pqc.js (bytes are 0..255, byte strings are sequences)
\* ------------------------------------------------------------------------

\* Bytes of an AES-256 key and of the Kyber shared secret: new Uint8Array(32).
KeyLen == 32

\* AES-GCM IV: crypto.getRandomValues(new Uint8Array(12)).
IvLen == 12

\* AES-GCM tag: tagLength 128 bits.
TagLen == 16

\* Lengths of the Kyber byte strings the library hands out, scaled down
\* (ML-KEM-512 has 800, 1632 and 768 bytes).
PkLen == 2
SkLen == 3
KemCtLen == 3

RECURSIVE XorBits(_, _, _)
\* a ^ b on the low n bits.
XorBits(a, b, n) ==
    IF n = 0 THEN 0
    ELSE ((a + b) % 2) + 2 * XorBits(a \div 2, b \div 2, n - 1)

\* a ^ b on bytes.
Xor(a, b) == XorBits(a, b, 8)

\* bytes[i] of a Uint8Array as JS reads it in `x[i] ^ y[i]`, index from 0:
\* an index past the end reads undefined, which ^ takes as 0.
ByteAt(bytes, i) == IF i + 1 <= Len(bytes) THEN bytes[i + 1] ELSE 0

\* Uint8Array.prototype.slice(start, end): negative indexes count from the
\* end and both are clamped to 0..length.
Clamp(i, n) == IF i < 0 THEN (IF n + i < 0 THEN 0 ELSE n + i) ELSE (IF i > n THEN n ELSE i)

Slice(bytes, start, end) ==
    LET a == Clamp(start, Len(bytes))
        b == Clamp(end, Len(bytes))
    IN  IF b <= a THEN <<>> ELSE [i \in 1..(b - a) |-> bytes[a + i]]

\* slice(start): to the end.
SliceFrom(bytes, start) == Slice(bytes, start, Len(bytes))

RECURSIVE SumBytes(_, _)
SumBytes(bytes, n) == IF n = 0 THEN 0 ELSE bytes[n] + SumBytes(bytes, n - 1)

\* uint8ToBase64: btoa over the bytes.  A base64 string is the sequence of
\* its characters' values, 0..63, with 64 for the padding '='.
uint8ToBase64(bytes) ==
    LET n == Len(bytes)
        b(i) == IF i <= n THEN bytes[i] ELSE 0
        triple(g) == b(3 * g + 1) * 65536 + b(3 * g + 2) * 256 + b(3 * g + 3)
        char(k) ==
            LET g == (k - 1) \div 4
                j == (k - 1) % 4
            IN  IF j = 2 /\ 3 * g + 2 > n THEN 64
                ELSE IF j = 3 /\ 3 * g + 3 > n THEN 64
                ELSE CASE j = 0 -> (triple(g) \div 262144) % 64
                       [] j = 1 -> (triple(g) \div 4096) % 64
                       [] j = 2 -> (triple(g) \div 64) % 64
                       [] OTHER -> triple(g) % 64
    IN  [k \in 1..(4 * ((n + 2) \div 3)) |-> char(k)]

\* base64ToUint8: atob, then one byte per character code.
base64ToUint8(b64) ==
    LET m == Len(b64)
        pad == IF m = 0 THEN 0
               ELSE IF b64[m] # 64 THEN 0
               ELSE IF b64[m - 1] # 64 THEN 1 ELSE 2
        n == 3 * (m \div 4) - pad
        c(k) == IF b64[k] = 64 THEN 0 ELSE b64[k]
        quad(g) == c(4 * g + 1) * 262144 + c(4 * g + 2) * 4096
                     + c(4 * g + 3) * 64 + c(4 * g + 4)
        byte(i) ==
            LET g == (i - 1) \div 3
                j == (i - 1) % 3
            IN  CASE j = 0 -> (quad(g) \div 65536) % 256
                  [] j = 1 -> (quad(g) \div 256) % 256
                  [] OTHER -> quad(g) % 256
    IN  [i \in 1..n |-> byte(i)]

\* generateAESKey / exportAESKey: the raw bytes of the key the RNG draws;
\* seed names the draw.
exportAESKey(seed) == [i \in 1..KeyLen |-> (seed * 37 + i * 11) % 256]

\* The AES-GCM key stream byte for position i (from 1) under key and iv.
KeyStream(key, iv, i) ==
    (ByteAt(key, (i - 1) % KeyLen) + 3 * ByteAt(iv, (i - 1) % IvLen) + i) % 256

\* The AES-GCM tag over the ciphertext bytes ct under key and iv.
GcmTag(key, iv, ct) ==
    [j \in 1..TagLen |->
        (ByteAt(key, j - 1) + 5 * ByteAt(key, j - 1 + TagLen) + ByteAt(iv, (j - 1) % IvLen)
           + SumBytes(ct, Len(ct)) + j * Len(ct)) % 256]

\* encryptAES(key, plaintext) with the IV the RNG draws: ciphertext and tag.
encryptAES(key, iv, plaintext) ==
    LET ct == [i \in 1..Len(plaintext) |-> Xor(plaintext[i], KeyStream(key, iv, i))]
    IN  ct \o GcmTag(key, iv, ct)

\* A decryptAES that releases the key stream's output without the tag check.
decryptAESNoTag(key, ciphertext, iv) ==
    LET n == Len(ciphertext) - TagLen
        ct == Slice(ciphertext, 0, n)
    IN  IF Len(key) # KeyLen \/ n < 0
        THEN [ok |-> FALSE, plaintext |-> <<>>]
        ELSE [ok |-> TRUE,
              plaintext |-> [i \in 1..n |-> Xor(ct[i], KeyStream(key, iv, i))]]

\* decryptAES(key, ciphertext, iv): the plaintext, or a thrown OperationError
\* when the input is shorter than a tag or the tag does not verify.
decryptAES(key, ciphertext, iv) ==
    LET n == Len(ciphertext) - TagLen
        ct == Slice(ciphertext, 0, n)
        tag == SliceFrom(ciphertext, n)
    IN  IF Len(key) # KeyLen \/ n < 0 \/ tag # GcmTag(key, iv, ct)
        THEN [ok |-> FALSE, plaintext |-> <<>>]
        ELSE [ok |-> TRUE,
              plaintext |-> [i \in 1..n |-> Xor(ct[i], KeyStream(key, iv, i))]]

\* sha256Hex(data): the fingerprint, a digest of the bytes.
sha256Hex(data) ==
    LET RECURSIVE mix(_)
        mix(n) == IF n = 0 THEN 7 ELSE (31 * mix(n - 1) + data[n] + 1) % 65521
    IN  mix(Len(data))

\* generateKyberKeypair: the pair the library derives from its randomness;
\* seed names the draw.  The private key embeds the public key's identity.
generateKyberKeypair(seed) ==
    [publicKey |-> [i \in 1..PkLen |-> (seed * 16 + i - 1) % 256],
     privateKey |-> [i \in 1..SkLen |-> (seed * 16 + 7 * (i - 1)) % 256]]

\* The shared secret the KEM derives under the key of identity kid from the
\* encapsulation randomness r.
SharedSecret(kid, r) == [i \in 1..KeyLen |-> (kid * 31 + r * 17 + i * 3) % 256]

\* kyberEncapsulate(recipientPublicKey) with the randomness r the library
\* draws; throws on a public key of the wrong length.
kyberEncapsulate(recipientPublicKey, r) ==
    IF Len(recipientPublicKey) # PkLen
    THEN [ok |-> FALSE, kemCiphertext |-> <<>>, sharedSecret |-> <<>>]
    ELSE [ok |-> TRUE,
          kemCiphertext |-> [i \in 1..KemCtLen |->
                                IF i = 1 THEN recipientPublicKey[1]
                                ELSE IF i = 2 THEN r
                                ELSE (recipientPublicKey[1] + r + i) % 256],
          sharedSecret |-> SharedSecret(recipientPublicKey[1], r)]

\* kyberDecapsulate(kemCiphertext, privateKey): the shared secret of the
\* encapsulation when the ciphertext was made for this key, the implicit
\* rejection secret otherwise; throws on a ciphertext of the wrong length.
kyberDecapsulate(kemCiphertext, privateKey) ==
    IF Len(kemCiphertext) # KemCtLen \/ Len(privateKey) # SkLen
    THEN [ok |-> FALSE, sharedSecret |-> <<>>]
    ELSE LET kid == privateKey[1]
             r == kemCiphertext[2]
             wellFormed == /\ kemCiphertext[1] = kid
                           /\ \A i \in 3..KemCtLen : kemCiphertext[i] = (kid + r + i) % 256
         IN  [ok |-> TRUE,
              sharedSecret |->
                 IF wellFormed THEN SharedSecret(kid, r)
                 ELSE [i \in 1..KeyLen |->
                         (kid * 5 + SumBytes(kemCiphertext, KemCtLen) + i + 1) % 256]]

\* Variant of wrapAESKeyWithKyber that skips the XOR: the payload carries
\* the AES key itself.
wrapAESKeyWithKyberPlain(aesKeyBytes, recipientPublicKey, r) ==
    LET enc == kyberEncapsulate(recipientPublicKey, r)
    IN  [ok |-> enc.ok,
         kemCiphertext |-> enc.kemCiphertext,
         wrappedKey |-> IF enc.ok THEN aesKeyBytes ELSE <<>>]

\* wrapAESKeyWithKyber(aesKeyBytes, recipientPublicKey): encapsulate, then
\* wrappedKey[i] = aesKeyBytes[i] ^ sharedSecret[i] for i < 32.
wrapAESKeyWithKyber(aesKeyBytes, recipientPublicKey, r) ==
    LET enc == kyberEncapsulate(recipientPublicKey, r)
    IN  [ok |-> enc.ok,
         kemCiphertext |-> enc.kemCiphertext,
         wrappedKey |-> IF enc.ok
                        THEN [i \in 1..KeyLen |->
                                Xor(ByteAt(aesKeyBytes, i - 1), ByteAt(enc.sharedSecret, i - 1))]
                        ELSE <<>>]

\* Variant of unwrapAESKeyWithKyber whose loop stops one byte short
\* (i < 31): the last byte of aesKeyBytes stays 0.
unwrapAESKeyWithKyberShort(kemCiphertext, wrappedKey, privateKey) ==
    LET dec == kyberDecapsulate(kemCiphertext, privateKey)
    IN  [ok |-> dec.ok,
         aesKeyBytes |-> IF dec.ok
                         THEN [i \in 1..KeyLen |->
                                 IF i = KeyLen THEN 0
                                 ELSE Xor(ByteAt(wrappedKey, i - 1),
                                          ByteAt(dec.sharedSecret, i - 1))]
                         ELSE <<>>]

\* unwrapAESKeyWithKyber(kemCiphertext, wrappedKey, privateKey): decapsulate,
\* then aesKeyBytes[i] = wrappedKey[i] ^ sharedSecret[i] for i < 32.
unwrapAESKeyWithKyber(kemCiphertext, wrappedKey, privateKey) ==
    LET dec == kyberDecapsulate(kemCiphertext, privateKey)
    IN  [ok |-> dec.ok,
         aesKeyBytes |-> IF dec.ok
                         THEN [i \in 1..KeyLen |->
                                 Xor(ByteAt(wrappedKey, i - 1), ByteAt(dec.sharedSecret, i - 1))]
                         ELSE <<>>]

\* combined = kemCiphertext || wrappedKey, base64 for the JSON body.
KemPayload(wrapped) == uint8ToBase64(wrapped.kemCiphertext \o wrapped.wrappedKey)

\* ------------------------------------------------------------------------
\* Node backend: middleware and prepared statements
\* ------------------------------------------------------------------------

\* A middleware that asks for the Authorization header only.
authMiddlewareHeaderOnly(token) ==
    IF token = Null THEN Null
    ELSE IF token \in DOMAIN sessions THEN sessions[token] ELSE token

\* authMiddleware: the user of the session row for the bearer token, or
\* Null (the request is answered 401).
authMiddleware(token) ==
    IF token \in DOMAIN sessions THEN sessions[token] ELSE Null

\* stmts.getShared.all(userId)
getShared(u) == {r \in shared_files : r.sender = u}

\* stmts.getReceived.all(userId): the received-files listing of a recipient.
getReceived(u) == {r \in received_files : r.recipient = u}

\* stmts.getReceivedItem.get(id, userId)
getReceivedItem(id, u) == {r \in received_files : r.id = id /\ r.recipient = u}

\* INSERT INTO shared_files: id is the PRIMARY KEY, a duplicate id throws.
SharedIdTaken(id) == \E r \in shared_files : r.id = id

\* INSERT INTO received_files: id is the PRIMARY KEY, a duplicate id throws.
ReceivedIdTaken(id) == \E r \in received_files : r.id = id

\* The display name the client sends for a file (ShareModal: selected?.name
\* of the history row, or 'File').
FileNameOf(fileId) ==
    LET rows == {h \in file_history : h.id = fileId}
    IN  IF rows = {} THEN "File" ELSE (CHOOSE h \in rows : TRUE).name

\* The caller owns the file: a file_history row of that id and user.
OwnsFile(u, fileId) == \E h \in file_history : h.id = fileId /\ h.user_id = u

ShareId(t) == "SHARE-" \o ToString(t)
RecvId(t) == "RECV-" \o ToString(t)

\* ------------------------------------------------------------------------
\* Node backend: handlers of routes/files.  The status a handler answers is
\* a function of the tables, the clock and the request.
\* ------------------------------------------------------------------------

\* POST /share: the status answered.  Date.now() is read twice (shareId,
\* recvId); d is the clock's advance between the two reads.  A duplicate
\* primary key makes the INSERT throw and Express answers 500.
ShareStatus(token, fileId, recipient, d) ==
    IF authMiddleware(token) = Null THEN 401
    ELSE IF recipient = Null \/ fileId = 0 THEN 400
    ELSE IF SharedIdTaken(ShareId(now)) THEN 500
    ELSE IF ReceivedIdTaken(RecvId(now + d)) THEN 500
    ELSE 200

\* POST /share: the rows written.  The two INSERTs run one after the other
\* outside any transaction: when the second throws the first stays.
Share(token, fileId, recipient, permission, shareCode, d) ==
    LET u == authMiddleware(token)
        perm == IF permission = Null THEN "view" ELSE permission
        fileName == FileNameOf(fileId)
    IN
    /\ u # Null
    /\ recipient # Null /\ fileId # 0
    /\ ~SharedIdTaken(ShareId(now))
    /\ now + d <= MaxClock
    /\ now' = now + d
    /\ shared_files' = shared_files \cup
          {[id |-> ShareId(now), file_id |-> fileId, file_name |-> fileName,
            sender |-> u, recipient |-> recipient, permission |-> perm,
            share_code |-> shareCode]}
    /\ received_files' =
          IF ReceivedIdTaken(RecvId(now + d)) THEN received_files
          ELSE received_files \cup
                  {[id |-> RecvId(now + d), share_code |-> shareCode,
                    file_name |-> fileName, sender |-> u, recipient |-> recipient,
                    permission |-> perm, content |-> Null, viewed |-> FALSE]}
    /\ revoked' = revoked \ {shareCode}
    /\ UNCHANGED <<sessions, file_history, outsideLedger>>

\* DELETE /shared/:id: the status answered (404 when no row was deleted).
RevokeStatus(token, id) ==
    IF authMiddleware(token) = Null THEN 401
    ELSE IF {r \in shared_files : r.id = id /\ r.sender = authMiddleware(token)} = {}
         THEN 404
    ELSE 200

\* A deleteShared that matches on the id alone.
RevokeAnySender(token, id) ==
    LET u == authMiddleware(token)
        rows == {r \in shared_files : r.id = id}
    IN
    /\ u # Null
    /\ rows # {}
    /\ shared_files' = shared_files \ rows
    /\ revoked' = (revoked \cup {r.share_code : r \in rows})
                    \ {r.share_code : r \in shared_files'}
    /\ UNCHANGED <<sessions, file_history, received_files, now, outsideLedger>>

\* DELETE /shared/:id: deleteShared WHERE id = ? AND sender = ?.
Revoke(token, id) ==
    LET u == authMiddleware(token)
        rows == {r \in shared_files : r.id = id /\ r.sender = u}
    IN
    /\ u # Null
    /\ rows # {}
    /\ shared_files' = shared_files \ rows
    /\ revoked' = (revoked \cup {r.share_code : r \in rows})
                    \ {r.share_code : r \in shared_files'}
    /\ UNCHANGED <<sessions, file_history, received_files, now, outsideLedger>>

\* POST /receive: the status answered.  The handler never reads shared_files.
ReceiveStatus(token, shareCode) ==
    IF authMiddleware(token) = Null THEN 401
    ELSE IF ReceivedIdTaken(RecvId(now)) THEN 500
    ELSE 200

\* POST /receive: inserts a received_files row for the caller under the code
\* of the request body and answers with that row.
Receive(token, shareCode, content) ==
    LET u == authMiddleware(token)
        code == IF shareCode = Null THEN "MANUAL-" \o ToString(now) ELSE shareCode
    IN
    /\ u # Null
    /\ ~ReceivedIdTaken(RecvId(now))
    /\ received_files' = received_files \cup
          {[id |-> RecvId(now), share_code |-> code, file_name |-> "Received File",
            sender |-> "Unknown", recipient |-> u, permission |-> "download",
            content |-> content, viewed |-> FALSE]}
    /\ UNCHANGED <<sessions, file_history, shared_files, now, revoked, outsideLedger>>

\* PATCH /received/:id/view: the status answered.
ViewStatus(token, id) ==
    IF authMiddleware(token) = Null THEN 401
    ELSE IF getReceivedItem(id, authMiddleware(token)) = {} THEN 404
    ELSE 200

\* PATCH /received/:id/view: markViewed WHERE id = ? AND recipient = ?.
View(token, id) ==
    LET u == authMiddleware(token)
        rows == getReceivedItem(id, u)
    IN
    /\ u # Null
    /\ rows # {}
    /\ received_files' = (received_files \ rows) \cup
                            {[r EXCEPT !.viewed = TRUE] : r \in rows}
    /\ UNCHANGED <<sessions, file_history, shared_files, now, revoked, outsideLedger>>

\* The clock advances between requests.
Tick ==
    /\ now < MaxClock
    /\ now' = now + 1
    /\ UNCHANGED <<sessions, file_history, shared_files, received_files, revoked, outsideLedger>>

\* ------------------------------------------------------------------------
\* Node backend: routes/auth, routes/settings and the routers' middleware
\* ------------------------------------------------------------------------

\* users table of db.js: created by the schema, and no prepared statement
\* reads or writes it.  The row a deployment holds for alice.
users == {[id |-> "alice", password_hash |-> "verifier-of-pw-alice"]}

\* crypto.randomBytes(32).toString('hex'): the n-th token drawn.  256 random
\* bits: every draw differs from every token seen before.
TokenOf(n) == "tok" \o ToString(n)

\* The answer of a handler, with the request it answers.
Answer(route, bearer, req, status, body) ==
    [route |-> route, bearer |-> bearer, req |-> req, status |-> status,
     body |-> body]

\* POST /login: 400 when a field is missing (or empty); otherwise a session
\* row for the researcher id of the body under a fresh token.
Login(researcherId, accessKey) ==
    LET req == [researcherId |-> researcherId, accessKey |-> accessKey]
        token == TokenOf(Len(issued) + 1)
    IN
    IF researcherId = Null \/ accessKey = Null
    THEN /\ resp' = Answer("POST /login", Null, req, 400, Null)
         /\ UNCHANGED <<ledgerVars, clientVars, authVars>>
    ELSE /\ Len(issued) < MaxLogins
         /\ sessions' = (token :> researcherId) @@ sessions
         /\ issued' = Append(issued, researcherId)
         /\ resp' = Answer("POST /login", Null, req, 200, token)
         /\ UNCHANGED <<file_history, shared_files, received_files, now, revoked,
                        clientVars, loggedOut, user_settings>>

\* POST /logout that leaves the session row in place.
LogoutKeepsSession(token) ==
    /\ loggedOut' = IF token # Null THEN loggedOut \cup {token} ELSE loggedOut
    /\ resp' = Answer("POST /logout", token, Null, 200, Null)
    /\ UNCHANGED <<ledgerVars, clientVars, issued, user_settings>>

\* POST /logout: deleteSession for the bearer token when the header carries
\* one; answers 200 either way.
Logout(token) ==
    /\ sessions' = IF token # Null
                   THEN [t \in DOMAIN sessions \ {token} |-> sessions[t]]
                   ELSE sessions
    /\ loggedOut' = IF token # Null THEN loggedOut \cup {token} ELSE loggedOut
    /\ resp' = Answer("POST /logout", token, Null, 200, Null)
    /\ UNCHANGED <<file_history, shared_files, received_files, now, revoked,
                   clientVars, issued, user_settings>>

\* GET /session: the status answered.
SessionStatus(token) ==
    IF token = Null THEN 401
    ELSE IF token \notin DOMAIN sessions THEN 401
    ELSE 200

\* GET /session: the user of the session row.
GetSession(token) ==
    /\ resp' = Answer("GET /session", token, Null, SessionStatus(token),
                      IF SessionStatus(token) = 200 THEN sessions[token] ELSE Null)
    /\ UNCHANGED <<ledgerVars, clientVars, authVars>>

\* DELETE /history: clearHistory WHERE user_id = ?.
ClearHistory(token) ==
    LET u == authMiddleware(token) IN
    /\ u # Null
    /\ file_history' = {h \in file_history : h.user_id # u}
    /\ UNCHANGED <<sessions, shared_files, received_files, now, revoked,
                   outsideLedger>>

\* routes/settings: the defaults merged under the request body.
SettingsDefaults == [algorithm |-> "AES-256-GCM", keySize |-> "512"]

\* GET /settings: the stored row, or the defaults.
getSettings(u) ==
    IF u \in DOMAIN user_settings
    THEN [algorithm |-> user_settings[u].algorithm,
          keySize |-> user_settings[u].key_size]
    ELSE SettingsDefaults

\* PUT /settings: upsertSettings of { ...defaults, ...req.body }.
PutSettings(token, body) ==
    LET u == authMiddleware(token)
        s == [k \in DOMAIN SettingsDefaults |->
                IF body[k] = Null THEN SettingsDefaults[k] ELSE body[k]]
    IN
    /\ u # Null
    /\ user_settings' = (u :> [algorithm |-> s.algorithm, key_size |-> s.keySize])
                            @@ user_settings
    /\ UNCHANGED <<ledgerVars, clientVars, issued, loggedOut>>

\* The routes of routes/files a request may name: one of the history, one
\* of the sharing and one of the received routes.
FilesRoutes == {"DELETE /history", "POST /share", "GET /received"}

\* routes/files: router.use(authMiddleware), then the handler of the route.
FilesRouter(token, route) ==
    IF authMiddleware(token) = Null
    THEN /\ resp' = Answer(route, token, Null, 401, Null)
         /\ UNCHANGED <<ledgerVars, clientVars, authVars>>
    ELSE \/ /\ route = "POST /share"
            /\ Share(token, 1, "bob", Null, "A1B2C3", 1)
            /\ resp' = Answer(route, token, Null, ShareStatus(token, 1, "bob", 1),
                              "A1B2C3")
         \/ /\ route = "DELETE /history"
            /\ ClearHistory(token)
            /\ resp' = Answer(route, token, Null, 200, Null)
         \/ /\ route = "GET /received"
            /\ resp' = Answer(route, token, Null, 200,
                              Cardinality(getReceived(authMiddleware(token))))
            /\ UNCHANGED <<ledgerVars, clientVars, authVars>>

\* routes/settings: router.use(authMiddleware), then GET / or PUT /.
SettingsRouter(token, route, body) ==
    IF authMiddleware(token) = Null
    THEN /\ resp' = Answer(route, token, body, 401, Null)
         /\ UNCHANGED <<ledgerVars, clientVars, authVars>>
    ELSE \/ /\ route = "GET /settings"
            /\ resp' = Answer(route, token, body, 200, getSettings(authMiddleware(token)))
            /\ UNCHANGED <<ledgerVars, clientVars, authVars>>
         \/ /\ route = "PUT /settings"
            /\ PutSettings(token, body)
            /\ resp' = Answer(route, token, body, 200, Null)

\* ------------------------------------------------------------------------
\* Client: crypto/keyStore.js
\* ------------------------------------------------------------------------

\* getKyberKeypair(userId) resolved to a keypair (null otherwise).
hasKyberKeypair(u) == u \in DOMAIN keystore

\* getKyberKeypair(userId): the stored keypair.
getKyberKeypair(u) == keystore[u]

\* ------------------------------------------------------------------------
\* Server: Identity & Key Registry, Blob Store and Share Ledger behind
\* api.uploadFile, api.myFiles, api.getPublicKey, api.shareFile,
\* api.getShareByCode, api.downloadFile / api.viewFile, api.getGroupPubkeys,
\* api.shareFileWithGroup and api.listGroupSharedFiles.
\* ------------------------------------------------------------------------

\* The one research group and its members in the server's listing order.
GroupMembers == <<"alice", "bob", "carol">>

IsGroupMember(u) == \E i \in 1..Len(GroupMembers) : GroupMembers[i] = u

\* search / session snapshot: has-public-key.
hasKyberKey(u) == u \in DOMAIN registry

\* lookup-public-key(researcher-id).
getPublicKey(u) == registry[u]

\* put: |blob| = 12 + original-size + 16, and the fingerprint is that of the
\* ciphertext-and-tag.
PutAccepts(blob, originalSize, sha256Hash) ==
    /\ Len(blob) = IvLen + originalSize + TagLen
    /\ sha256Hash = sha256Hex(SliceFrom(blob, IvLen))

\* list-my-files: ids of the caller's file records.
myFiles(u) == {f \in DOMAIN files : files[f].owner = u}

\* share-direct: the sender owns the file.
ShareAccepts(sender, fileId) == fileId \in DOMAIN files /\ files[fileId].owner = sender

\* The n-th share code the ledger hands out (codes never collide).
ShareCodeOf(n) == "CODE-" \o ToString(n)

\* fetch-by-code: the records addressed to the caller under the code.
getShareByCode(caller, code) ==
    {sh \in shares : sh.shareCode = code /\ sh.recipientId = caller}

\* authorize-read(file-id, caller).
authorizeRead(fileId, caller) ==
    /\ fileId \in DOMAIN files
    /\ \/ files[fileId].owner = caller
       \/ \E sh \in shares : sh.fileId = fileId /\ sh.recipientId = caller
       \/ IsGroupMember(caller) /\ \E g \in group_shares : g.fileId = fileId

\* list-group-public-keys: the members that have a registered public key.
getGroupPubkeys ==
    SelectSeq([i \in 1..Len(GroupMembers) |->
                  [userId |-> GroupMembers[i],
                   kyberPublicKey |-> IF hasKyberKey(GroupMembers[i])
                                      THEN registry[GroupMembers[i]] ELSE <<>>]],
              LAMBDA m : hasKyberKey(m.userId))

\* share-group: the sender owns the file and every member-id of the mapping
\* is a current member with a registered public key.
GroupShareAccepts(sender, fileId, kemCiphertexts) ==
    /\ ShareAccepts(sender, fileId)
    /\ IsGroupMember(sender)
    /\ \A m \in DOMAIN kemCiphertexts : IsGroupMember(m) /\ hasKyberKey(m)

\* ------------------------------------------------------------------------
\* Client pipelines
\* ------------------------------------------------------------------------

\* The IV the RNG draws: crypto.getRandomValues(new Uint8Array(12)).
DrawIv(seed) == [i \in 1..IvLen |-> (seed * 13 + i) % 256]

Outcome(kind, u, fileId, ok, plaintext) ==
    [kind |-> kind, user |-> u, fileId |-> fileId, ok |-> ok, plaintext |-> plaintext]

\* The payload split of ShareModal, GroupShareFileModal, ReceiveModal and
\* FileViewer, then unwrapAESKeyWithKyber:
\*   full.slice(0, full.length - 32), full.slice(full.length - 32).
UnwrapPayload(payloadB64, privateKey) ==
    LET full == base64ToUint8(payloadB64)
        kemCipher == Slice(full, 0, Len(full) - KeyLen)
        wrappedKey == SliceFrom(full, Len(full) - KeyLen)
    IN  unwrapAESKeyWithKyber(kemCipher, wrappedKey, privateKey)

\* The blob split and decrypt of ReceiveModal and FileViewer:
\*   iv = bytes.slice(0, 12), ciphertext = bytes.slice(12), importAESKey,
\*   decryptAES.
DecryptBlob(aesKeyBytes, encBytes) ==
    decryptAES(aesKeyBytes, SliceFrom(encBytes, IvLen), Slice(encBytes, 0, IvLen))

\* Encryption.encrypt: draw the DEK, owner-wrap it, encrypt, fingerprint,
\* upload IV || ciphertext with the owner-wrap payload.  Without a local
\* keypair it throws before anything is uploaded.
Encrypt(u, plaintext) ==
    LET aesKeyBytes == exportAESKey(rng + 1)
        kp == getKyberKeypair(u)
        wrapped == wrapAESKeyWithKyber(aesKeyBytes, kp.publicKey, rng + 2)
        iv == DrawIv(rng + 3)
        ciphertext == encryptAES(aesKeyBytes, iv, plaintext)
        fingerprint == sha256Hex(ciphertext)
        encBlob == iv \o ciphertext
    IN
    /\ Len(files) < MaxUploads
    /\ rng + 3 <= MaxDraws
    /\ hasKyberKeypair(u)
    /\ wrapped.ok
    /\ PutAccepts(encBlob, Len(plaintext), fingerprint)
    /\ rng' = rng + 3
    /\ files' = Append(files,
          [owner |-> u, fileName |-> "notes.txt", originalSize |-> Len(plaintext),
           blob |-> encBlob, sha256Hash |-> fingerprint, contentType |-> "text/plain",
           ownerKemCt |-> KemPayload(wrapped)])
    /\ uploads' = Append(uploads, [plaintext |-> plaintext, aesKeyBytes |-> aesKeyBytes])
    /\ UNCHANGED <<outsideE2E, keystore, registry, shares, group_shares, gshare, lastOutcome>>

\* The AES key ShareModal.submit wraps for the recipient: recovered from the
\* owner-wrap payload of the selected file with the sender's private key.
ShareModalKey(u, fileId) ==
    UnwrapPayload(files[fileId].ownerKemCt, getKyberKeypair(u).privateKey)

\* ShareModal.submit: recover the file's AES key from the owner-wrap, wrap
\* that key for the recipient and post the share.
ShareModalSubmit(u, fileId, recipient) ==
    LET key == ShareModalKey(u, fileId)
        wrapped == wrapAESKeyWithKyber(key.aesKeyBytes, base64ToUint8(getPublicKey(recipient)),
                                       rng + 1)
    IN
    /\ Cardinality(shares) < MaxShares
    /\ rng + 1 <= MaxDraws
    /\ fileId \in myFiles(u)
    /\ hasKyberKey(recipient)
    /\ hasKyberKeypair(u)
    /\ key.ok
    /\ wrapped.ok
    /\ ShareAccepts(u, fileId)
    /\ rng' = rng + 1
    /\ shares' = shares \cup
          {[id |-> Cardinality(shares) + 1, fileId |-> fileId, senderId |-> u,
            recipientId |-> recipient, kemCiphertext |-> KemPayload(wrapped),
            shareCode |-> ShareCodeOf(Cardinality(shares) + 1),
            permission |-> "download", fileName |-> files[fileId].fileName]}
    /\ UNCHANGED <<outsideE2E, keystore, registry, files, group_shares, gshare,
                   lastOutcome, uploads>>

\* The other ShareModal.submit of the repository: it draws a fresh AES key
\* for the share (generateAESKey, exportAESKey) and wraps that one.
ShareModalSubmitFreshKey(u, fileId, recipient) ==
    LET aesKeyBytes == exportAESKey(rng + 1)
        wrapped == wrapAESKeyWithKyber(aesKeyBytes, base64ToUint8(getPublicKey(recipient)),
                                       rng + 2)
    IN
    /\ Cardinality(shares) < MaxShares
    /\ rng + 2 <= MaxDraws
    /\ fileId \in myFiles(u)
    /\ hasKyberKey(recipient)
    /\ wrapped.ok
    /\ ShareAccepts(u, fileId)
    /\ rng' = rng + 2
    /\ shares' = shares \cup
          {[id |-> Cardinality(shares) + 1, fileId |-> fileId, senderId |-> u,
            recipientId |-> recipient, kemCiphertext |-> KemPayload(wrapped),
            shareCode |-> ShareCodeOf(Cardinality(shares) + 1),
            permission |-> "download", fileName |-> files[fileId].fileName]}
    /\ UNCHANGED <<outsideE2E, keystore, registry, files, group_shares, gshare,
                   lastOutcome, uploads>>

\* ReceiveModal.submit: fetch the share by code, unwrap its payload with the
\* caller's private key, download the blob, decrypt and hand the plaintext
\* to the user; any failure ends in an error toast without a download.
ReceiveModalResult(u, code) ==
    LET rows == getShareByCode(u, code)
        share == CHOOSE sh \in rows : TRUE
        key == UnwrapPayload(share.kemCiphertext, getKyberKeypair(u).privateKey)
        dec == DecryptBlob(key.aesKeyBytes, files[share.fileId].blob)
    IN  IF rows = {} THEN Outcome("receive", u, 0, FALSE, <<>>)
        ELSE IF ~hasKyberKeypair(u) \/ ~key.ok \/ ~authorizeRead(share.fileId, u)
             THEN Outcome("receive", u, share.fileId, FALSE, <<>>)
        ELSE Outcome("receive", u, share.fileId, dec.ok, dec.plaintext)

ReceiveModalSubmit(u, code) ==
    /\ lastOutcome' = ReceiveModalResult(u, code)
    /\ UNCHANGED <<outsideE2E, keystore, registry, files, shares, group_shares, gshare,
                   rng, uploads>>

\* FileViewer's decrypt effect: download the blob, unwrap kemPayload with
\* the caller's private key, decrypt, show the plaintext (or the error).
FileViewerResult(kind, u, fileId, kemPayload) ==
    LET key == UnwrapPayload(kemPayload, getKyberKeypair(u).privateKey)
        dec == DecryptBlob(key.aesKeyBytes, files[fileId].blob)
    IN  IF ~authorizeRead(fileId, u) \/ ~hasKyberKeypair(u) \/ ~key.ok
        THEN Outcome(kind, u, fileId, FALSE, <<>>)
        ELSE Outcome(kind, u, fileId, dec.ok, dec.plaintext)

\* The owner opens an own file with its owner-wrap payload.
OwnerView(u, fileId) ==
    /\ fileId \in myFiles(u)
    /\ lastOutcome' = FileViewerResult("owner", u, fileId, files[fileId].ownerKemCt)
    /\ UNCHANGED <<outsideE2E, keystore, registry, files, shares, group_shares, gshare,
                   rng, uploads>>

\* ReceivedFiles, group tab: the View button of an item that carries
\* myKemCiphertext, the caller's entry of the group share's mapping.
GroupView(u, g) ==
    /\ g \in group_shares
    /\ IsGroupMember(u)
    /\ u \in DOMAIN g.kemCiphertexts
    /\ lastOutcome' = FileViewerResult("group", u, g.fileId, g.kemCiphertexts[u])
    /\ UNCHANGED <<outsideE2E, keystore, registry, files, shares, group_shares, gshare,
                   rng, uploads>>

\* Variant of GroupShareKey that draws a fresh AES key for the share
\* (generateAESKey, exportAESKey) instead of recovering the file's key.
GroupShareKeyFresh(u, fileId) ==
    [ok |-> TRUE, aesKeyBytes |-> exportAESKey(rng + 1)]

\* The AES key GroupShareFileModal.submit fans out (its step 1): recovered
\* from the owner-wrap payload of the selected file.
GroupShareKey(u, fileId) ==
    UnwrapPayload(files[fileId].ownerKemCt, getKyberKeypair(u).privateKey)

GShareIdle ==
    [pc |-> "idle", user |-> Null, fileId |-> 0, aesKeyBytes |-> <<>>,
     pubkeys |-> <<>>, kemCiphertexts |-> <<>>]

\* Variant of GroupShareBegin without the check `pubkeys.length === 0`.
GroupShareBeginNoCheck(u, fileId) ==
    LET key == GroupShareKey(u, fileId)
        pubkeys == getGroupPubkeys
    IN
    /\ gshare.pc = "idle"
    /\ Cardinality(group_shares) < MaxGroupShares
    /\ rng + Len(pubkeys) <= MaxDraws
    /\ fileId \in myFiles(u)
    /\ hasKyberKeypair(u)
    /\ key.ok
    /\ gshare' = [pc |-> "wrapping", user |-> u, fileId |-> fileId,
                  aesKeyBytes |-> key.aesKeyBytes, pubkeys |-> pubkeys,
                  kemCiphertexts |-> <<>>]
    /\ UNCHANGED <<outsideE2E, keystore, registry, files, shares, group_shares, rng,
                   lastOutcome, uploads>>

\* GroupShareFileModal.submit, step 1 and the fetch of the members' public
\* keys: a throw (no keypair, no member with a key) ends the submit.
GroupShareBegin(u, fileId) ==
    LET key == GroupShareKey(u, fileId)
        pubkeys == getGroupPubkeys
    IN
    /\ gshare.pc = "idle"
    /\ Cardinality(group_shares) < MaxGroupShares
    /\ rng + Len(pubkeys) <= MaxDraws
    /\ fileId \in myFiles(u)
    /\ hasKyberKeypair(u)
    /\ key.ok
    /\ Len(pubkeys) # 0
    /\ gshare' = [pc |-> "wrapping", user |-> u, fileId |-> fileId,
                  aesKeyBytes |-> key.aesKeyBytes, pubkeys |-> pubkeys,
                  kemCiphertexts |-> <<>>]
    /\ UNCHANGED <<outsideE2E, keystore, registry, files, shares, group_shares, rng,
                   lastOutcome, uploads>>

\* Variant of GroupShareWrap with the try/catch inside the loop: a member
\* whose encapsulation throws is skipped and the loop goes on.
GroupShareWrapSkip(rngOk) ==
    LET member == Head(gshare.pubkeys)
        wrapped == wrapAESKeyWithKyber(gshare.aesKeyBytes,
                                       base64ToUint8(member.kyberPublicKey), rng + 1)
    IN
    /\ gshare.pc = "wrapping"
    /\ Len(gshare.pubkeys) > 0
    /\ IF rngOk /\ wrapped.ok
       THEN /\ rng' = rng + 1
            /\ gshare' = [gshare EXCEPT
                  !.pubkeys = Tail(gshare.pubkeys),
                  !.kemCiphertexts = Append(gshare.kemCiphertexts,
                        [userId |-> member.userId, payload |-> KemPayload(wrapped)])]
       ELSE /\ rng' = rng
            /\ gshare' = [gshare EXCEPT !.pubkeys = Tail(gshare.pubkeys)]
    /\ UNCHANGED <<outsideE2E, keystore, registry, files, shares, group_shares,
                   lastOutcome, uploads>>

\* One turn of the loop `for (const member of pubkeys)`: wrap the key for
\* the next member.  When the encapsulation throws (rngOk is false: the RNG
\* failed) the submit ends in the catch and nothing is posted.
GroupShareWrap(rngOk) ==
    LET member == Head(gshare.pubkeys)
        wrapped == wrapAESKeyWithKyber(gshare.aesKeyBytes,
                                       base64ToUint8(member.kyberPublicKey), rng + 1)
    IN
    /\ gshare.pc = "wrapping"
    /\ Len(gshare.pubkeys) > 0
    /\ IF rngOk /\ wrapped.ok
       THEN /\ rng' = rng + 1
            /\ gshare' = [gshare EXCEPT
                  !.pubkeys = Tail(gshare.pubkeys),
                  !.kemCiphertexts = Append(gshare.kemCiphertexts,
                        [userId |-> member.userId, payload |-> KemPayload(wrapped)])]
            /\ lastOutcome' = lastOutcome
       ELSE /\ rng' = rng
            /\ gshare' = GShareIdle
            /\ lastOutcome' = Outcome("groupshare", gshare.user, gshare.fileId, FALSE, <<>>)
    /\ UNCHANGED <<outsideE2E, keystore, registry, files, shares, group_shares, uploads>>

\* The mapping object {userId: payload} the submit posts.
MappingOf(entries) ==
    [m \in {entries[i].userId : i \in 1..Len(entries)} |->
        (CHOOSE e \in {entries[i] : i \in 1..Len(entries)} : e.userId = m).payload]

\* api.shareFileWithGroup(groupId, fileId, kemCiphertexts) after the loop:
\* one request; the ledger records the whole mapping or (the request fails
\* or is refused: delivered is false) nothing.
GroupShareSubmit(delivered) ==
    LET mapping == MappingOf(gshare.kemCiphertexts)
        recorded == delivered /\ GroupShareAccepts(gshare.user, gshare.fileId, mapping)
    IN
    /\ gshare.pc = "wrapping"
    /\ Len(gshare.pubkeys) = 0
    /\ group_shares' =
          IF recorded
          THEN group_shares \cup
                  {[id |-> Cardinality(group_shares) + 1, fileId |-> gshare.fileId,
                    sharedBy |-> gshare.user, kemCiphertexts |-> mapping]}
          ELSE group_shares
    /\ gshare' = GShareIdle
    /\ lastOutcome' = Outcome("groupshare", gshare.user, gshare.fileId, recorded, <<>>)
    /\ UNCHANGED <<outsideE2E, keystore, registry, files, shares, rng, uploads>>

\* What Encryption.encrypt uploaded as blob of the file: IV || ciphertext
\* and tag of the upload's plaintext under the upload's key.
UploadedBlob(fileId) ==
    LET iv == Slice(files[fileId].blob, 0, IvLen)
    IN  iv \o encryptAES(uploads[fileId].aesKeyBytes, iv, uploads[fileId].plaintext)

\* bytes with bit k of byte i (from 1) flipped.
FlipBit(bytes, i, k) == [bytes EXCEPT ![i] = Xor(@, 2 ^ k)]

\* The bytes api.downloadFile / api.viewFile hand the client differ from the
\* upload in one bit of the ciphertext-or-tag portion (one flip per blob).
TamperBlob(fileId) ==
    /\ fileId \in DOMAIN files
    /\ files[fileId].blob = UploadedBlob(fileId)
    /\ \E i \in (IvLen + 1)..Len(files[fileId].blob), k \in 0..7 :
          files' = [files EXCEPT ![fileId].blob = FlipBit(@, i, k)]
    /\ UNCHANGED <<outsideE2E, keystore, registry, shares, group_shares, gshare, rng,
                   lastOutcome, uploads>>

\* ------------------------------------------------------------------------
\* Client: FileViewer handed a KEM payload of any length
\* ------------------------------------------------------------------------


\* FileViewer before it is mounted: nothing attempted, no error shown.
ProbeIdle ==
    [user |-> Null, payload |-> <<>>, payloadLen |-> 0, decapsulated |-> FALSE,
     decrypted |-> FALSE, error |-> Null]

\* The length of a payload kemCiphertext || wrappedKey.
PayloadLen == KemCtLen + KeyLen

\* FileViewer steps 3 and 4: the test of kemPayload (an empty string is
\* falsy), the keypair check, the split at length - 32,
\* unwrapAESKeyWithKyber, importAESKey and decryptAES; which of them ran
\* and the error the catch block shows.
FileViewerSteps(u, kemPayload, encBytes) ==
    IF Len(kemPayload) = 0
    THEN [decapsulated |-> FALSE, decrypted |-> FALSE,
          error |-> "This viewer requires a KEM ciphertext"]
    ELSE IF ~hasKyberKeypair(u)
    THEN [decapsulated |-> FALSE, decrypted |-> FALSE,
          error |-> "No Kyber keypair found"]
    ELSE LET key == UnwrapPayload(kemPayload, getKyberKeypair(u).privateKey)
             dec == DecryptBlob(key.aesKeyBytes, encBytes)
         IN  IF ~key.ok
             THEN [decapsulated |-> TRUE, decrypted |-> FALSE,
                   error |-> "kem.decap threw"]
             ELSE IF ~dec.ok
             THEN [decapsulated |-> TRUE, decrypted |-> TRUE,
                   error |-> "OperationError"]
             ELSE [decapsulated |-> TRUE, decrypted |-> TRUE, error |-> Null]

\* The blob of a file encrypted under exportAESKey(1).
ProbeBlob == DrawIv(1) \o encryptAES(exportAESKey(1), DrawIv(1), <<72, 105, 10>>)

\* bytes cut or zero-padded to n bytes.
Resize(bytes, n) == [i \in 1..n |-> ByteAt(bytes, i - 1)]

\* The lengths of the payloads handed to the viewer.
ProbeLens == {0, KeyLen - 1, KeyLen, PayloadLen - 1, PayloadLen, PayloadLen + 1}

\* FileViewer mounted by u on ProbeBlob with a payload of n bytes made from
\* the wrap of the blob's key to recipientPublicKey; its effect runs once.
FileViewerOpen(u, recipientPublicKey, r, n) ==
    LET wrapped == wrapAESKeyWithKyber(exportAESKey(1), recipientPublicKey, r)
        bytes == Resize(wrapped.kemCiphertext \o wrapped.wrappedKey, n)
        steps == FileViewerSteps(u, uint8ToBase64(bytes), ProbeBlob)
    IN
    /\ probe.user = Null
    /\ probe' = [user |-> u, payload |-> bytes, payloadLen |-> Len(bytes),
                 decapsulated |-> steps.decapsulated, decrypted |-> steps.decrypted,
                 error |-> steps.error]
    /\ UNCHANGED <<ledgerVars, resp, authVars, e2eVars, keyVars, encRun, browser, viewer>>

\* onClose: the viewer is unmounted and its state is gone.
FileViewerClose ==
    /\ probe.user # Null
    /\ probe' = ProbeIdle
    /\ UNCHANGED <<ledgerVars, resp, authVars, e2eVars, keyVars, encRun, browser, viewer>>

\* ------------------------------------------------------------------------
\* Client: Encryption.encrypt, one action per awaited step.  log lists the
\* steps the run has performed, in order.
\* ------------------------------------------------------------------------

\* The page before encrypt runs.
EncIdle ==
    [pc |-> "Idle", user |-> Null, plaintext |-> <<>>, log |-> <<>>,
     aesKeyBytes |-> <<>>, ownerKemPayload |-> <<>>, iv |-> <<>>, ciphertext |-> <<>>,
     fingerprint |-> 0]

\* The file the user picked, by its size: file.arrayBuffer().
PickedFile(size) == [i \in 1..size |-> 64 + i]

\* encrypt is started on the picked file (the button is disabled while a
\* run is under way); plaintext = new Uint8Array(await file.arrayBuffer()).
encryptBegin(u, size) ==
    /\ encRun.pc \in {"Idle", "Done", "Failed"}
    /\ Len(files) < MaxUploads
    /\ rng + 3 <= MaxDraws
    /\ encRun' = [EncIdle EXCEPT !.pc = "KeyDraw", !.user = u, !.plaintext = PickedFile(size)]
    /\ UNCHANGED <<ledgerVars, resp, authVars, e2eVars, keyVars, probe, browser, viewer>>

\* 1: generateAESKey, exportAESKey.
encryptKeyDraw ==
    /\ encRun.pc = "KeyDraw"
    /\ rng' = rng + 1
    /\ encRun' = [encRun EXCEPT !.pc = "OwnerWrap", !.aesKeyBytes = exportAESKey(rng + 1),
                          !.log = Append(@, "KeyDraw")]
    /\ UNCHANGED <<ledgerVars, resp, authVars, keyVars, probe, browser, viewer, keystore, registry, files,
                   shares, group_shares, gshare, lastOutcome, uploads>>

\* 2: getKyberKeypair, wrapAESKeyWithKyber with the owner's public key,
\* ownerKemPayload = kemCiphertext || wrappedKey.  Without a keypair the
\* run throws into the catch block.
encryptOwnerWrap ==
    LET kp == getKyberKeypair(encRun.user)
        wrapped == wrapAESKeyWithKyber(encRun.aesKeyBytes, kp.publicKey, rng + 1)
    IN
    /\ encRun.pc = "OwnerWrap"
    /\ IF hasKyberKeypair(encRun.user) /\ wrapped.ok
       THEN /\ rng' = rng + 1
            /\ encRun' = [encRun EXCEPT !.pc = "Encrypt",
                                  !.ownerKemPayload = wrapped.kemCiphertext \o wrapped.wrappedKey,
                                  !.log = Append(@, "OwnerWrap")]
       ELSE /\ rng' = rng
            /\ encRun' = [encRun EXCEPT !.pc = "Failed"]
    /\ UNCHANGED <<ledgerVars, resp, authVars, keyVars, probe, browser, viewer, keystore, registry, files,
                   shares, group_shares, gshare, lastOutcome, uploads>>

\* 3: encryptAES draws the IV and encrypts.
encryptAesGcm ==
    LET iv == DrawIv(rng + 1)
    IN
    /\ encRun.pc = "Encrypt"
    /\ rng' = rng + 1
    /\ encRun' = [encRun EXCEPT !.pc = "Hash", !.iv = iv,
                          !.ciphertext = encryptAES(encRun.aesKeyBytes, iv, encRun.plaintext),
                          !.log = @ \o <<"IvDraw", "Encrypt">>]
    /\ UNCHANGED <<ledgerVars, resp, authVars, keyVars, probe, browser, viewer, keystore, registry, files,
                   shares, group_shares, gshare, lastOutcome, uploads>>

\* 4: sha256Hex(ciphertext).
encryptHash ==
    /\ encRun.pc = "Hash"
    /\ encRun' = [encRun EXCEPT !.pc = "Upload", !.fingerprint = sha256Hex(encRun.ciphertext),
                          !.log = Append(@, "Hash")]
    /\ UNCHANGED <<ledgerVars, resp, authVars, e2eVars, keyVars, probe, browser, viewer>>

\* 5: api.uploadFile(formData) with IV || ciphertext, the sizes, the
\* fingerprint and the owner-wrap payload; a request that fails or is
\* refused throws into the catch block.  The function then returns.
encryptUpload(delivered) ==
    LET encBlob == encRun.iv \o encRun.ciphertext
    IN
    /\ encRun.pc = "Upload"
    /\ IF delivered /\ PutAccepts(encBlob, Len(encRun.plaintext), encRun.fingerprint)
       THEN /\ files' = Append(files,
                  [owner |-> encRun.user, fileName |-> "notes.txt",
                   originalSize |-> Len(encRun.plaintext), blob |-> encBlob,
                   sha256Hash |-> encRun.fingerprint, contentType |-> "text/plain",
                   ownerKemCt |-> uint8ToBase64(encRun.ownerKemPayload)])
            /\ uploads' = Append(uploads, [plaintext |-> encRun.plaintext,
                                           aesKeyBytes |-> encRun.aesKeyBytes])
            /\ encRun' = [encRun EXCEPT !.pc = "Done", !.log = Append(@, "Upload")]
       ELSE /\ UNCHANGED <<files, uploads>>
            /\ encRun' = [encRun EXCEPT !.pc = "Failed", !.log = Append(@, "Upload")]
    /\ UNCHANGED <<ledgerVars, resp, authVars, keyVars, probe, browser, viewer, keystore, registry, shares,
                   group_shares, gshare, rng, lastOutcome>>

\* ------------------------------------------------------------------------
\* Client: api/client.js request and AuthProvider's session-restore effect.
\* A request is sent, resolved by the server (or fails) and settled by the
\* code after `await fetch`.
\* ------------------------------------------------------------------------

Slots == 1..MaxInFlight

ReqIdle == [pc |-> "idle", kind |-> Null, bearer |-> Null, status |-> 0, body |-> Null]

\* A freshly loaded page with token under localStorage's hb_token:
\* user = null, loading = true, nothing in flight.  rejected lists the
\* tokens a 401 or a failed session check came back for.
BrowserIdle(token) ==
    [hb_token |-> token, page |-> "boot", user |-> Null,
     reqs |-> [slot \in Slots |-> ReqIdle], login |-> "idle", rejected |-> {}]

\* window.location.reload(): the page and everything it had in flight are
\* gone; localStorage and the history of rejections stay.
Reloaded(b) == [BrowserIdle(b.hb_token) EXCEPT !.rejected = b.rejected]

\* AuthProvider's effect: without a token loading ends; with one,
\* api.getSession() is sent with it.
sessionRestore(slot) ==
    /\ browser.page = "boot"
    /\ browser' =
          IF browser.hb_token = Null
          THEN [browser EXCEPT !.page = "ready"]
          ELSE [browser EXCEPT !.page = "restoring",
                               !.reqs[slot] = [pc |-> "sent", kind |-> "session",
                                               bearer |-> browser.hb_token, status |-> 0,
                                               body |-> Null]]
    /\ UNCHANGED <<ledgerVars, resp, authVars, e2eVars, keyVars, probe, encRun, viewer>>

\* request(endpoint) up to its fetch: the Authorization header carries
\* getToken() as it is now.
requestSend(slot) ==
    /\ browser.page = "ready"
    /\ browser.reqs[slot].pc = "idle"
    /\ browser' = [browser EXCEPT !.reqs[slot] =
                      [pc |-> "sent", kind |-> "api", bearer |-> browser.hb_token,
                       status |-> 0, body |-> Null]]
    /\ UNCHANGED <<ledgerVars, resp, authVars, e2eVars, keyVars, probe, encRun, viewer>>

\* The fetch resolves: GET /session or a route behind authMiddleware
\* answers 401 or 200 for the bearer; or the server answers 500; or fetch
\* itself rejects (status 0).
fetchResolve(slot, outcome) ==
    LET r == browser.reqs[slot]
        status == IF outcome = "error" THEN 0
                  ELSE IF outcome = "500" THEN 500
                  ELSE IF r.kind = "session" THEN SessionStatus(r.bearer)
                  ELSE IF authMiddleware(r.bearer) = Null THEN 401 ELSE 200
    IN
    /\ r.pc = "sent"
    /\ browser' = [browser EXCEPT !.reqs[slot] =
                      [r EXCEPT !.pc = "answered", !.status = status,
                                !.body = IF status = 200 /\ r.kind = "session"
                                         THEN sessions[r.bearer] ELSE Null]]
    /\ UNCHANGED <<ledgerVars, resp, authVars, e2eVars, keyVars, probe, encRun, viewer>>

\* A request that throws 'Session expired' on a 401 without clearToken.
requestSettleKeepsToken(slot) ==
    LET r == browser.reqs[slot]
    IN
    /\ r.pc = "answered"
    /\ browser' =
          IF r.status = 401
          THEN [Reloaded(browser) EXCEPT !.rejected = @ \cup ({r.bearer} \ {Null})]
          ELSE IF r.kind = "session"
          THEN IF r.status = 200
               THEN [browser EXCEPT !.user = r.body, !.page = "ready",
                                    !.reqs[slot] = ReqIdle]
               ELSE [browser EXCEPT !.hb_token = Null, !.page = "ready",
                                    !.rejected = @ \cup {r.bearer},
                                    !.reqs[slot] = ReqIdle]
          ELSE [browser EXCEPT !.reqs[slot] = ReqIdle]
    /\ UNCHANGED <<ledgerVars, resp, authVars, e2eVars, keyVars, probe, encRun, viewer>>

\* request after its fetch, and the caller's handlers.  401: clearToken,
\* window.location.reload, throw.  The session check: then setUser, catch
\* clearToken, finally setLoading(false).  Any other caller gets the data
\* or the thrown error.
requestSettle(slot) ==
    LET r == browser.reqs[slot]
    IN
    /\ r.pc = "answered"
    /\ browser' =
          IF r.status = 401
          THEN [Reloaded([browser EXCEPT !.hb_token = Null])
                   EXCEPT !.rejected = @ \cup ({r.bearer} \ {Null})]
          ELSE IF r.kind = "session"
          THEN IF r.status = 200
               THEN [browser EXCEPT !.user = r.body, !.page = "ready",
                                    !.reqs[slot] = ReqIdle]
               ELSE [browser EXCEPT !.hb_token = Null, !.page = "ready",
                                    !.rejected = @ \cup {r.bearer},
                                    !.reqs[slot] = ReqIdle]
          ELSE [browser EXCEPT !.reqs[slot] = ReqIdle]
    /\ UNCHANGED <<ledgerVars, resp, authVars, e2eVars, keyVars, probe, encRun, viewer>>

\* login up to api.login: the request is in flight.
clientLoginSend ==
    /\ browser.page = "ready"
    /\ browser.login = "idle"
    /\ browser' = [browser EXCEPT !.login = "sent"]
    /\ UNCHANGED <<ledgerVars, resp, authVars, e2eVars, keyVars, probe, encRun, viewer>>

\* login after api.login answered 200: setToken(data.token), setUser.
clientLoginSettle ==
    /\ browser.login = "sent"
    /\ resp.route = "POST /login" /\ resp.status = 200
    /\ browser' = [browser EXCEPT !.login = "idle", !.hb_token = resp.body,
                                  !.user = resp.req.researcherId]
    /\ UNCHANGED <<ledgerVars, resp, authVars, e2eVars, keyVars, probe, encRun, viewer>>

\* ------------------------------------------------------------------------
\* Client: FileViewer's decrypt effect and its cleanup.  Each run of the
\* effect has its own `cancelled`; a run moves at the points where one of
\* its awaits resolves or rejects.
\* ------------------------------------------------------------------------

Runs == 1..MaxRuns

\* The awaits of a run, in order: api.viewFile, res.blob, arrayBuffer,
\* getKyberKeypair, unwrapAESKeyWithKyber, importAESKey, decryptAES.
Awaits == <<"viewFile", "blob", "arrayBuffer", "getKyberKeypair", "unwrap",
            "importAESKey", "decryptAES">>

RunIdle == [pc |-> 0, fileId |-> 0, cancelled |-> FALSE]

\* The viewer not mounted: blobUrl, decryptedBlob and error are null, written
\* <<>>; a value a run sets is written <<run, what>>.
ViewerIdle ==
    [mounted |-> FALSE, fileId |-> 0, current |-> 0, started |-> 0,
     runs |-> [r \in Runs |-> RunIdle],
     blobUrl |-> <<>>, decryptedBlob |-> <<>>, error |-> <<>>, loading |-> TRUE]

\* The effect body: a new run with cancelled = false at its first await.
StartRun(v, fileId) ==
    [v EXCEPT !.fileId = fileId, !.current = v.started + 1, !.started = v.started + 1,
              !.runs[v.started + 1] = [pc |-> 1, fileId |-> fileId, cancelled |-> FALSE]]

\* The cleanup of the effect: cancelled = true for the run it belongs to.
Cleanup(v) ==
    IF v.current = 0 THEN v ELSE [v EXCEPT !.runs[v.current].cancelled = TRUE]

\* The viewer is mounted on a file: fresh state, the effect runs.
viewerMount(fileId) ==
    /\ ~viewer.mounted
    /\ viewer.started < MaxRuns
    /\ viewer' = StartRun([viewer EXCEPT !.mounted = TRUE, !.blobUrl = <<>>,
                                         !.decryptedBlob = <<>>, !.error = <<>>,
                                         !.loading = TRUE], fileId)
    /\ UNCHANGED <<ledgerVars, resp, authVars, e2eVars, keyVars, probe, encRun, browser>>

\* The fileId prop changes: the cleanup of the old run, then the effect
\* again; the component's state stays as it is.
viewerFileIdChange(fileId) ==
    /\ viewer.mounted
    /\ fileId # viewer.fileId
    /\ viewer.started < MaxRuns
    /\ viewer' = StartRun(Cleanup(viewer), fileId)
    /\ UNCHANGED <<ledgerVars, resp, authVars, e2eVars, keyVars, probe, encRun, browser>>

\* onClose: the viewer is unmounted, the cleanup runs, the state is gone.
viewerClose ==
    /\ viewer.mounted
    /\ viewer' = [Cleanup(viewer) EXCEPT !.mounted = FALSE, !.current = 0,
                                         !.blobUrl = <<>>, !.decryptedBlob = <<>>,
                                         !.error = <<>>, !.loading = TRUE]
    /\ UNCHANGED <<ledgerVars, resp, authVars, e2eVars, keyVars, probe, encRun, browser>>

\* A run that goes on to step 5 and to setError whatever `cancelled` says.
runAwaitUnchecked(r, ok) ==
    LET run == viewer.runs[r]
    IN
    /\ run.pc \in 1..Len(Awaits)
    /\ viewer' =
          IF ~ok
          THEN [viewer EXCEPT !.runs[r].pc = Len(Awaits) + 1,
                              !.error = <<r, Awaits[run.pc]>>,
                              !.loading = FALSE]
          ELSE IF run.pc < Len(Awaits)
          THEN [viewer EXCEPT !.runs[r].pc = run.pc + 1]
          ELSE [viewer EXCEPT !.runs[r].pc = Len(Awaits) + 1,
                              !.blobUrl = <<r, run.fileId>>,
                              !.decryptedBlob = <<r, run.fileId>>,
                              !.loading = FALSE]
    /\ UNCHANGED <<ledgerVars, resp, authVars, e2eVars, keyVars, probe, encRun, browser>>

\* An await of run r resolves (ok) or rejects.  Rejected: the catch block,
\* `if (!cancelled) { setError; setLoading(false) }`.  Resolved: the next
\* await, or after decryptAES `if (cancelled) return`, then setBlobUrl,
\* setDecryptedBlob, setLoading(false).
runAwait(r, ok) ==
    LET run == viewer.runs[r]
    IN
    /\ run.pc \in 1..Len(Awaits)
    /\ viewer' =
          IF ~ok
          THEN IF run.cancelled
               THEN [viewer EXCEPT !.runs[r].pc = Len(Awaits) + 1]
               ELSE [viewer EXCEPT !.runs[r].pc = Len(Awaits) + 1,
                                   !.error = <<r, Awaits[run.pc]>>,
                                   !.loading = FALSE]
          ELSE IF run.pc < Len(Awaits)
          THEN [viewer EXCEPT !.runs[r].pc = run.pc + 1]
          ELSE IF run.cancelled
          THEN [viewer EXCEPT !.runs[r].pc = Len(Awaits) + 1]
          ELSE [viewer EXCEPT !.runs[r].pc = Len(Awaits) + 1,
                              !.blobUrl = <<r, run.fileId>>,
                              !.decryptedBlob = <<r, run.fileId>>,
                              !.loading = FALSE]
    /\ UNCHANGED <<ledgerVars, resp, authVars, e2eVars, keyVars, probe, encRun, browser>>

\* ------------------------------------------------------------------------
\* Client: AuthProvider (ensureKyberKeys, register, login, logout).  Every
\* await is a point where another tab of the same profile may run; the
\* tabs share the IndexedDB key store.  api.register, api.login and
\* api.updateKyberKey reach the Identity & Key Registry.
\* ------------------------------------------------------------------------

Tabs == 1..MaxTabs

\* An AuthProvider with no user and no run in flight.
TabIdle ==
    [pc |-> "idle", op |-> Null, researcherId |-> Null, hasKyberKey |-> FALSE,
     kp |-> Null, fresh |-> FALSE, user |-> Null, completed |-> Null]

\* The draw behind the n-th keypair generated on this host (the keypairs
\* the run starts with took the draws of KeySeed).
FreshSeed(n) == Cardinality(Users) + n

\* ensureKyberKeys handing out the private half.
ensureKyberKeysResultPrivate(kp) == uint8ToBase64(kp.privateKey)

\* ensureKyberKeys: return uint8ToBase64(kp.publicKey).
ensureKyberKeysResult(kp) == uint8ToBase64(kp.publicKey)

\* Identity & Key Registry: register creates the identity unless the
\* identifier is taken (AlreadyExists); login answers for an identity that
\* exists (the password is the right one).
registerAccepts(researcherId) == researcherId \notin accounts
loginAccepts(researcherId) == researcherId \in accounts

\* register: the Login page called register(researcherId, password); it
\* awaits ensureKyberKeys first.
registerBegin(tab, researcherId) ==
    /\ auth[tab].pc = "idle" /\ auth[tab].user = Null
    /\ auth' = [auth EXCEPT ![tab] =
                  [TabIdle EXCEPT !.pc = "get", !.op = "register",
                                  !.researcherId = researcherId]]
    /\ UNCHANGED <<ledgerVars, resp, authVars, e2eVars, accounts, sent, generated,
                   firstStored, pageVars>>

\* login: api.login answered with the token and the identity's snapshot
\* (hasKyberKey); setToken, setUser, then ensureKyberKeys is awaited.
loginBegin(tab, researcherId) ==
    /\ auth[tab].pc = "idle" /\ auth[tab].user = Null
    /\ loginAccepts(researcherId)
    /\ auth' = [auth EXCEPT ![tab] =
                  [TabIdle EXCEPT !.pc = "get", !.op = "login",
                                  !.researcherId = researcherId,
                                  !.hasKyberKey = hasKyberKey(researcherId),
                                  !.user = researcherId]]
    /\ UNCHANGED <<ledgerVars, resp, authVars, e2eVars, accounts, sent, generated,
                   firstStored, pageVars>>

\* ensureKyberKeys: kp = await getKyberKeypair(researcherId); if (!kp) ...
ensureKyberKeysGet(tab) ==
    LET id == auth[tab].researcherId IN
    /\ auth[tab].pc = "get"
    /\ auth' = [auth EXCEPT ![tab] =
                  IF hasKyberKeypair(id)
                  THEN [@ EXCEPT !.pc = "send", !.kp = getKyberKeypair(id)]
                  ELSE [@ EXCEPT !.pc = "generate"]]
    /\ UNCHANGED <<ledgerVars, resp, authVars, e2eVars, accounts, sent, generated,
                   firstStored, pageVars>>

\* ensureKyberKeys: kp = await generateKyberKeypair().
ensureKyberKeysGenerate(tab) ==
    LET id == auth[tab].researcherId IN
    /\ auth[tab].pc = "generate"
    /\ rng + 1 <= MaxKeypairs
    /\ rng' = rng + 1
    /\ auth' = [auth EXCEPT ![tab] =
                  [@ EXCEPT !.pc = "store", !.fresh = TRUE,
                            !.kp = generateKyberKeypair(FreshSeed(rng + 1))]]
    /\ generated' = [generated EXCEPT ![id] = @ + 1]
    /\ UNCHANGED <<ledgerVars, resp, authVars, keystore, registry, files, shares,
                   group_shares, gshare, lastOutcome, uploads, accounts, sent,
                   firstStored, pageVars>>

\* ensureKyberKeys: await storeKyberKeypair(researcherId, publicKey,
\* privateKey); store.put replaces the record under the id.
ensureKyberKeysStore(tab) ==
    LET id == auth[tab].researcherId IN
    /\ auth[tab].pc = "store"
    /\ keystore' = (id :> auth[tab].kp) @@ keystore
    /\ firstStored' = IF id \in DOMAIN firstStored THEN firstStored
                      ELSE (id :> auth[tab].kp) @@ firstStored
    /\ auth' = [auth EXCEPT ![tab] = [@ EXCEPT !.pc = "send"]]
    /\ UNCHANGED <<ledgerVars, resp, authVars, registry, files, shares, group_shares,
                   gshare, rng, lastOutcome, uploads, accounts, sent, generated,
                   pageVars>>

\* register: api.register(researcherId, password, pubKeyB64).  The registry
\* creates the identity with the key, or answers AlreadyExists and the
\* call throws before setToken.
registerSubmit(tab) ==
    LET id == auth[tab].researcherId
        pubKeyB64 == ensureKyberKeysResult(auth[tab].kp)
    IN
    /\ auth[tab].pc = "send" /\ auth[tab].op = "register"
    /\ sent' = sent \cup {[researcherId |-> id, value |-> pubKeyB64]}
    /\ IF ~registerAccepts(id)
       THEN /\ auth' = [auth EXCEPT ![tab] =
                          [TabIdle EXCEPT !.completed = "AlreadyExists"]]
            /\ UNCHANGED <<accounts, registry>>
       ELSE /\ accounts' = accounts \cup {id}
            /\ registry' = (id :> pubKeyB64) @@ registry
            /\ auth' = [auth EXCEPT ![tab] =
                          [@ EXCEPT !.pc = "idle", !.user = id,
                                    !.completed = "register"]]
    /\ UNCHANGED <<ledgerVars, resp, authVars, keystore, files, shares, group_shares,
                   gshare, rng, lastOutcome, uploads, generated, firstStored, pageVars>>

\* login: if (!data.user.hasKyberKey) try { await api.updateKyberKey(pubKeyB64) }
\* catch { non-critical }; delivered tells whether the request got through.
loginUpdateKey(tab, delivered) ==
    LET id == auth[tab].researcherId
        pubKeyB64 == ensureKyberKeysResult(auth[tab].kp)
    IN
    /\ auth[tab].pc = "send" /\ auth[tab].op = "login"
    /\ IF auth[tab].hasKyberKey
       THEN delivered /\ UNCHANGED <<sent, registry>>
       ELSE /\ sent' = sent \cup {[researcherId |-> id, value |-> pubKeyB64]}
            /\ registry' = IF delivered THEN (id :> pubKeyB64) @@ registry
                           ELSE registry
    /\ auth' = [auth EXCEPT ![tab] = [@ EXCEPT !.pc = "idle", !.completed = "login"]]
    /\ UNCHANGED <<ledgerVars, resp, authVars, keystore, files, shares, group_shares,
                   gshare, rng, lastOutcome, uploads, accounts, generated,
                   firstStored, pageVars>>

\* A logout that also calls clearKeyStore.
logoutClearKeyStore(tab) ==
    /\ auth[tab].pc = "idle" /\ auth[tab].user # Null
    /\ auth' = [auth EXCEPT ![tab] = TabIdle]
    /\ keystore' = <<>>
    /\ UNCHANGED <<ledgerVars, resp, authVars, registry, files, shares, group_shares,
                   gshare, rng, lastOutcome, uploads, accounts, sent, generated,
                   firstStored, pageVars>>

\* logout: api.logout, clearToken, setUser(null); the key store is kept.
logout(tab) ==
    /\ auth[tab].pc = "idle" /\ auth[tab].user # Null
    /\ auth' = [auth EXCEPT ![tab] = TabIdle]
    /\ UNCHANGED <<ledgerVars, resp, authVars, e2eVars, accounts, sent, generated,
                   firstStored, pageVars>>

ShareIds == {ShareId(t) : t \in 1..MaxClock}
RecvIds == {RecvId(t) : t \in 1..MaxClock}

\* The server with three researchers logged in (POST /login stores one
\* session row per token) and one file in alice's history; no share yet.
LedgerInit ==
    /\ sessions = [t \in {"tokA", "tokB", "tokC"} |->
                      CASE t = "tokA" -> "alice" [] t = "tokB" -> "bob" [] OTHER -> "carol"]
    /\ file_history = {[id |-> 1, user_id |-> "alice", name |-> "data.csv",
                        original_size |-> 3, encrypted_size |-> 31, type |-> "text/csv"]}
    /\ shared_files = {}
    /\ received_files = {}
    /\ now = 1
    /\ revoked = {}

LedgerNext ==
    \/ \E token \in Tokens, fileId \in FileIds, recipient \in Recipients,
          shareCode \in ShareCodes, d \in 0..1 :
            Share(token, fileId, recipient, Null, shareCode, d) /\ UNCHANGED resp
    \/ \E token \in Tokens, id \in ShareIds : Revoke(token, id) /\ UNCHANGED resp
    \/ \E token \in Tokens, shareCode \in ShareCodes \cup {Null} :
            Receive(token, shareCode, Null) /\ UNCHANGED resp
    \/ \E token \in Tokens, id \in RecvIds : View(token, id) /\ UNCHANGED resp
    \/ Tick /\ UNCHANGED resp

\* routes/auth and routes/settings before any request.
AuthInit ==
    /\ resp = Answer(Null, Null, Null, 0, Null)
    /\ issued = <<>>
    /\ loggedOut = {}
    /\ user_settings = <<>>

\* Bearer tokens a request may carry: none, one that names no session, and
\* the tokens POST /login has issued (a token not drawn yet is in no
\* request).
Bearers == {Null, "stale"} \cup {TokenOf(n) : n \in 1..Len(issued)}

\* Researcher ids and access keys a login may carry (Null: missing).
Credentials == {<<"alice", "pw-alice">>, <<"alice", "wrong">>,
                <<"mallory", "pw-alice">>, <<Null, "pw-alice">>}

SettingsBodies == {[algorithm |-> Null, keySize |-> "1024"]}

AuthNext ==
    \/ \E c \in Credentials : Login(c[1], c[2])
    \/ \E token \in Bearers : Logout(token)
    \/ \E token \in Bearers : GetSession(token)
    \/ \E token \in Bearers, route \in FilesRoutes : FilesRouter(token, route)
    \/ \E token \in Bearers, body \in SettingsBodies :
          \E route \in {"GET /settings", "PUT /settings"} :
             SettingsRouter(token, route, body)

Plaintexts == {<<>>, <<72, 105, 10>>}

\* The draw behind each researcher's keypair.
KeySeed(u) == CASE u = "alice" -> 1 [] u = "bob" -> 2 [] OTHER -> 3

\* Who holds a local keypair and whose public key the registry has: all and
\* all; carol a legacy account without any key; keypairs made at login whose
\* upload (api.updateKyberKey, "non-critical") failed.
KeyStates ==
    {<<Users, Users>>, <<{"alice", "bob"}, {"alice", "bob"}>>, <<Users, {}>>}

E2EInit ==
    /\ \E ks \in KeyStates :
          /\ keystore = [u \in ks[1] |-> generateKyberKeypair(KeySeed(u))]
          /\ registry = [u \in ks[2] |-> uint8ToBase64(keystore[u].publicKey)]
    /\ files = <<>>
    /\ shares = {}
    /\ group_shares = {}
    /\ gshare = GShareIdle
    /\ rng = 0
    /\ lastOutcome = Outcome("none", Null, 0, FALSE, <<>>)
    /\ uploads = <<>>

E2ENext ==
    \/ \E u \in Users, plaintext \in Plaintexts : Encrypt(u, plaintext)
    \/ \E u \in Users, fileId \in 1..MaxUploads : \E recipient \in Users \ {u} :
          ShareModalSubmit(u, fileId, recipient)
    \/ \E u \in Users, fileId \in 1..MaxUploads : \E recipient \in Users \ {u} :
          ShareModalSubmitFreshKey(u, fileId, recipient)
    \/ \E u \in Users, n \in 1..MaxShares : ReceiveModalSubmit(u, ShareCodeOf(n))
    \/ \E u \in Users, fileId \in 1..MaxUploads : OwnerView(u, fileId)
    \/ \E u \in Users, g \in group_shares : GroupView(u, g)
    \/ \E u \in Users, fileId \in 1..MaxUploads : GroupShareBegin(u, fileId)
    \/ \E rngOk \in BOOLEAN : GroupShareWrap(rngOk)
    \/ \E delivered \in BOOLEAN : GroupShareSubmit(delivered)

\* The AuthProviders and the decrypt pipelines before they run.
KeysIdle ==
    /\ auth = [tab \in Tabs |-> TabIdle]
    /\ accounts = Users
    /\ sent = {}
    /\ generated = [u \in Users |-> 0]
    /\ firstStored = keystore


\* A browser profile that holds alice's keypair or none at all; alice is
\* registered with her public key, carol is an account that never
\* uploaded a key, bob has no account and registers from this profile.
KeysInit ==
    /\ \E local \in {{}, {"alice"}} :
          keystore = [u \in local |-> generateKyberKeypair(KeySeed(u))]
    /\ registry = [u \in {"alice"} |->
                     uint8ToBase64(generateKyberKeypair(KeySeed(u)).publicKey)]
    /\ accounts = {"alice", "carol"}
    /\ auth = [tab \in Tabs |-> TabIdle]
    /\ sent = {}
    /\ generated = [u \in Users |-> 0]
    /\ firstStored = keystore
    /\ files = <<>>
    /\ shares = {}
    /\ group_shares = {}
    /\ gshare = GShareIdle
    /\ rng = 0
    /\ lastOutcome = Outcome("none", Null, 0, FALSE, <<>>)
    /\ uploads = <<>>

KeysNext ==
    \/ \E tab \in Tabs, researcherId \in {"bob", "carol"} : registerBegin(tab, researcherId)
    \/ \E tab \in Tabs, researcherId \in Users : loginBegin(tab, researcherId)
    \/ \E tab \in Tabs : ensureKyberKeysGet(tab)
    \/ \E tab \in Tabs : ensureKyberKeysGenerate(tab)
    \/ \E tab \in Tabs : ensureKyberKeysStore(tab)
    \/ \E tab \in Tabs : registerSubmit(tab)
    \/ \E tab \in Tabs, delivered \in BOOLEAN : loginUpdateKey(tab, delivered)
    \/ \E tab \in Tabs : logout(tab)

\* The pages before any of their pipelines ran.
PagesIdle ==
    /\ probe = ProbeIdle
    /\ encRun = EncIdle
    /\ browser = BrowserIdle(Null)
    /\ viewer = ViewerIdle

vars == <<ledgerVars, e2eVars, resp, authVars, keyVars, pageVars>>

\* The share ledger of the Node backend; the client pipelines stay idle.
Init ==
    LedgerInit /\ E2EInit /\ AuthInit /\ KeysIdle /\ PagesIdle
       /\ DOMAIN registry = Users

Next == LedgerNext

Spec == Init /\ [][Next]_vars

\* The client pipelines against the registry, blob store and share ledger;
\* the Node backend's tables stay as started.
InitE2E == LedgerInit /\ E2EInit /\ AuthInit /\ KeysIdle /\ PagesIdle

SpecE2E == InitE2E /\ [][E2ENext]_vars

\* Sessions of the Node backend: login, logout and the routers behind the
\* middleware.
InitAuth ==
    LedgerInit /\ E2EInit /\ AuthInit /\ KeysIdle /\ PagesIdle
       /\ DOMAIN registry = Users

NextAuth == AuthNext

SpecAuth == InitAuth /\ [][NextAuth]_vars

\* The AuthProvider of each tab of one browser profile against the key
\* store and the registry.
InitKeys == LedgerInit /\ AuthInit /\ KeysInit /\ PagesIdle

NextKeys == KeysNext

SpecKeys == InitKeys /\ [][NextKeys]_vars

\* FileViewer opened on payloads of every length of ProbeLens.
InitPayload == LedgerInit /\ E2EInit /\ AuthInit /\ KeysIdle /\ PagesIdle

NextPayload ==
    \/ FileViewerClose
    \/ \E u \in Users, addressee \in Users, r \in 1..MaxProbeDraws, n \in ProbeLens :
          FileViewerOpen(u, generateKyberKeypair(KeySeed(addressee)).publicKey, r, n)

SpecPayload == InitPayload /\ [][NextPayload]_vars

\* Upload, share, receive and view over a store that may hand back a blob
\* with a flipped bit; every researcher holds a registered keypair.
TamperInit ==
    /\ keystore = [u \in Users |-> generateKyberKeypair(KeySeed(u))]
    /\ registry = [u \in Users |-> uint8ToBase64(keystore[u].publicKey)]
    /\ files = <<>>
    /\ shares = {}
    /\ group_shares = {}
    /\ gshare = GShareIdle
    /\ rng = 0
    /\ lastOutcome = Outcome("none", Null, 0, FALSE, <<>>)
    /\ uploads = <<>>

InitTamper == LedgerInit /\ TamperInit /\ AuthInit /\ KeysIdle /\ PagesIdle

NextTamper ==
    \/ \E plaintext \in Plaintexts : Encrypt("alice", plaintext)
    \/ \E fileId \in 1..MaxUploads, recipient \in {"bob", "carol"} :
          ShareModalSubmit("alice", fileId, recipient)
    \/ \E fileId \in 1..MaxUploads, recipient \in {"bob", "carol"} :
          ShareModalSubmitFreshKey("alice", fileId, recipient)
    \/ \E fileId \in 1..MaxUploads : TamperBlob(fileId)
    \/ \E u \in Users, n \in 1..MaxShares : ReceiveModalSubmit(u, ShareCodeOf(n))
    \/ \E u \in Users, fileId \in 1..MaxUploads : OwnerView(u, fileId)

SpecTamper == InitTamper /\ [][NextTamper]_vars

\* The Encryption page, step by step, for files of every size up to one
\* byte over the transport's limit.
InitEncrypt == LedgerInit /\ E2EInit /\ AuthInit /\ KeysIdle /\ PagesIdle

NextEncrypt ==
    \/ \E u \in Users, size \in 0..(MaxPlaintextSize + 1) : encryptBegin(u, size)
    \/ encryptKeyDraw
    \/ encryptOwnerWrap
    \/ encryptAesGcm
    \/ encryptHash
    \/ \E delivered \in BOOLEAN : encryptUpload(delivered)

SpecEncrypt == InitEncrypt /\ [][NextEncrypt]_vars

\* One page of the client against the Node backend's sessions.  The page
\* loads with no token, with alice's live token or with one that names no
\* session; sessions end when anyone logs them out.
InitClient ==
    /\ LedgerInit /\ TamperInit /\ AuthInit /\ KeysIdle
    /\ probe = ProbeIdle /\ encRun = EncIdle /\ viewer = ViewerIdle
    /\ \E token \in {Null, "tokA", "stale"} : browser = BrowserIdle(token)

NextClient ==
    \/ \E slot \in Slots : sessionRestore(slot)
    \/ \E slot \in Slots : requestSend(slot)
    \/ \E slot \in Slots, outcome \in {"answer", "500", "error"} : fetchResolve(slot, outcome)
    \/ \E slot \in Slots : requestSettle(slot)
    \/ clientLoginSend
    \/ browser.login = "sent" /\ Login("alice", "pw-alice")
    \/ clientLoginSettle
    \/ \E token \in (Bearers \cup {"tokA"}) \ {Null, "stale"} : Logout(token)

SpecClient == InitClient /\ [][NextClient]_vars

\* FileViewer opened, switched between two files and closed while its runs
\* are at any of their awaits.
InitViewer == LedgerInit /\ TamperInit /\ AuthInit /\ KeysIdle /\ PagesIdle

NextViewer ==
    \/ \E fileId \in 1..2 : viewerMount(fileId)
    \/ \E fileId \in 1..2 : viewerFileIdChange(fileId)
    \/ viewerClose
    \/ \E r \in Runs, ok \in BOOLEAN : runAwait(r, ok)

SpecViewer == InitViewer /\ [][NextViewer]_vars


\* ------------------------------------------------------------------------
\* Properties of the client pipelines (SpecE2E)
\* ------------------------------------------------------------------------

\* The client's keypair of m is the one whose public half the registry has.
KeyRegistered(m) ==
    /\ hasKyberKeypair(m)
    /\ hasKyberKey(m)
    /\ registry[m] = uint8ToBase64(keystore[m].publicKey)

\* C1: cross-identity round-trip.  For every direct share, the key wrapped
\* for the recipient is the key that encrypted the stored blob, and whenever
\* the addressed recipient runs the receive flow on the share's code the flow
\* yields exactly the plaintext the sender encrypted.
C1_CrossIdentityRoundTrip ==
    /\ \A sh \in shares :
          KeyRegistered(sh.recipientId) =>
             UnwrapPayload(sh.kemCiphertext,
                           getKyberKeypair(sh.recipientId).privateKey).aesKeyBytes
                = uploads[sh.fileId].aesKeyBytes
    /\ (lastOutcome.kind = "receive" /\ lastOutcome.fileId # 0) =>
          /\ lastOutcome.ok
          /\ lastOutcome.plaintext = uploads[lastOutcome.fileId].plaintext

\* unwrap(wrap(DEK, pk), sk) = DEK for every DEK the RNG draws, every
\* researcher's keypair and every encapsulation randomness.
WrapUnwrapRoundTrip ==
    \A seed \in 1..MaxDraws, u \in Users, r \in 1..MaxDraws :
        LET kp == generateKyberKeypair(KeySeed(u))
            wrapped == wrapAESKeyWithKyber(exportAESKey(seed), kp.publicKey, r)
        IN  /\ wrapped.ok
            /\ unwrapAESKeyWithKyber(wrapped.kemCiphertext, wrapped.wrappedKey,
                                     kp.privateKey)
                  = [ok |-> TRUE, aesKeyBytes |-> exportAESKey(seed)]

\* C2: owner round-trip.  unwrap(wrap(DEK, pk), sk) = DEK for matching
\* keypairs; for every uploaded file, unwrapping its owner-wrap payload with
\* the owner's private key gives the DEK of the upload and decrypting the
\* blob IV(12) || ciphertext-and-tag with it gives exactly the plaintext
\* (the empty plaintext included); the owner's viewer shows that plaintext.
C2_OwnerRoundTrip ==
    /\ WrapUnwrapRoundTrip
    /\ \A f \in DOMAIN files :
          hasKyberKeypair(files[f].owner) =>
             LET key == UnwrapPayload(files[f].ownerKemCt,
                                      getKyberKeypair(files[f].owner).privateKey)
             IN  /\ key = [ok |-> TRUE, aesKeyBytes |-> uploads[f].aesKeyBytes]
                 /\ DecryptBlob(key.aesKeyBytes, files[f].blob)
                       = [ok |-> TRUE, plaintext |-> uploads[f].plaintext]
    /\ lastOutcome.kind = "owner" =>
          /\ lastOutcome.ok
          /\ lastOutcome.plaintext = uploads[lastOutcome.fileId].plaintext

\* C2's case: an owner has opened an own file and sees its three bytes.
C2_Witness ==
    /\ lastOutcome.kind = "owner"
    /\ lastOutcome.ok
    /\ lastOutcome.plaintext = <<72, 105, 10>>
    /\ files[lastOutcome.fileId].owner = lastOutcome.user

\* C3: group round-trip.  Every member with an entry in the recorded
\* mapping recovers, from that entry and the own private key, the DEK that
\* encrypted the blob, hence the same plaintext as every other member; the
\* member's viewer shows it.
C3_GroupRoundTrip ==
    /\ \A g \in group_shares : \A m \in DOMAIN g.kemCiphertexts :
          KeyRegistered(m) =>
             LET key == UnwrapPayload(g.kemCiphertexts[m], getKyberKeypair(m).privateKey)
             IN  /\ key = [ok |-> TRUE, aesKeyBytes |-> uploads[g.fileId].aesKeyBytes]
                 /\ DecryptBlob(key.aesKeyBytes, files[g.fileId].blob)
                       = [ok |-> TRUE, plaintext |-> uploads[g.fileId].plaintext]
    /\ lastOutcome.kind = "group" =>
          /\ lastOutcome.ok
          /\ lastOutcome.plaintext = uploads[lastOutcome.fileId].plaintext

\* C3's case: a file fanned out to three members, and a member who is not
\* its owner has opened it from the own entry.
C3_Witness ==
    /\ lastOutcome.kind = "group"
    /\ lastOutcome.ok
    /\ lastOutcome.plaintext = <<72, 105, 10>>
    /\ files[lastOutcome.fileId].owner # lastOutcome.user
    /\ \E g \in group_shares :
          g.fileId = lastOutcome.fileId /\ Cardinality(DOMAIN g.kemCiphertexts) = 3

\* The members a group share is addressed to: those whose public key the
\* submit fetched.
AddressedMembers == {getGroupPubkeys[i].userId : i \in 1..Len(getGroupPubkeys)}

\* C4: group fan-out is all-or-nothing.  Every recorded group share carries
\* the payloads of all N addressed members; no state records a strict
\* non-empty subset, whether a wrap or the submit failed midway or not.
C4_GroupFanOutAllOrNothing ==
    \A g \in group_shares : DOMAIN g.kemCiphertexts = AddressedMembers

\* C4's case: a group share that had already wrapped for some member failed
\* (a later wrap threw or the submit was not recorded) and nothing is
\* recorded.  Without direct shares every draw beyond the three of an
\* upload is a wrap of the group share.
C4_Witness ==
    /\ lastOutcome.kind = "groupshare"
    /\ ~lastOutcome.ok
    /\ shares = {}
    /\ rng > 3 * Len(files)
    /\ group_shares = {}

C6_RevokedCodeNotFound ==
    \A code \in revoked :
        /\ \A token \in Tokens :
              authMiddleware(token) # Null => ReceiveStatus(token, code) = 404
        /\ \A u \in Users : \A r \in getReceived(u) : r.share_code # code

\* C7: list-incoming returns only active shares.  Every record a share put
\* into a recipient's received-files listing belongs to a share that was
\* created for that recipient and has not been revoked.
C7_IncomingOnlyActive ==
    \A u \in Users : \A r \in getReceived(u) :
        r.sender # "Unknown" =>
           \E sh \in shared_files :
               sh.share_code = r.share_code /\ sh.recipient = u /\ sh.sender = r.sender

\* C8: no partial direct share.  Whenever a share request has left an
\* outgoing record behind, the recipient's incoming record for that share
\* is there too, whatever else ran in the same millisecond: no outgoing
\* record stands without its incoming record.
C8_NoPartialShare ==
    \A sh \in shared_files :
        \E r \in received_files :
            /\ r.share_code = sh.share_code
            /\ r.recipient = sh.recipient
            /\ r.sender = sh.sender

\* C9: share-direct requires that the sender owns the file.  Every outgoing
\* record names a file of its sender, and every incoming record a share
\* created comes from a sender who owns a file.
C9_ShareRequiresOwnership ==
    /\ \A sh \in shared_files : OwnsFile(sh.sender, sh.file_id)
    /\ \A r \in received_files :
          r.sender # "Unknown" => \E h \in file_history : h.user_id = r.sender

\* C10: fetching a share by code succeeds only for the addressed recipient.
\* A caller other than the share's recipient is answered 403 and holds no
\* incoming record under the share's code.
C10_FetchOnlyForRecipient ==
    \A sh \in shared_files :
        /\ \A token \in Tokens :
              (authMiddleware(token) # Null /\ authMiddleware(token) # sh.recipient) =>
                 ReceiveStatus(token, sh.share_code) = 403
        /\ \A r \in received_files :
              r.share_code = sh.share_code => r.recipient = sh.recipient

\* C22: share codes name a single share.  No two outgoing records carry the
\* same share code.
C22_ShareCodesUnique ==
    \A a \in shared_files : \A b \in shared_files :
        a.share_code = b.share_code => a.id = b.id

\* C23: the first fetch by the addressed recipient flips viewed.  Once the
\* recipient of a share has fetched it by its code (POST /receive leaves a
\* row with sender 'Unknown'), the incoming record of that share is viewed.
C23_FetchFlipsViewed ==
    \A sh \in shared_files : \A f \in received_files :
        (f.sender = "Unknown" /\ f.share_code = sh.share_code /\ f.recipient = sh.recipient)
           => \A r \in received_files :
                 (r.sender = sh.sender /\ r.share_code = sh.share_code
                    /\ r.recipient = sh.recipient) => r.viewed

\* C26: revoke is owner-only.  A revoke by an authenticated user other than
\* the share's sender is answered 404; a step of a revoke request removes
\* only records whose sender is the caller and changes no other table; and
\* whenever an outgoing record goes away, its sender's revoke took it.
C26_RevokeOwnerOnly ==
    [][/\ \A sh \in shared_files : \A token \in Tokens :
             (authMiddleware(token) # Null /\ authMiddleware(token) # sh.sender)
                => RevokeStatus(token, sh.id) = 404
       /\ \A token \in Tokens : \A id \in ShareIds :
             Revoke(token, id) =>
                /\ \A r \in shared_files \ shared_files' :
                      r.sender = authMiddleware(token) /\ r.id = id
                /\ UNCHANGED <<sessions, file_history, received_files>>
       /\ \A r \in shared_files \ shared_files' :
             \E token \in Tokens :
                authMiddleware(token) = r.sender /\ RevokeStatus(token, r.id) = 200
      ]_vars

\* A share was revoked by its sender while another share stands that a
\* third user's revoke is refused for.
C26_Witness ==
    /\ revoked # {}
    /\ \E sh \in shared_files : \E token \in Tokens :
          /\ authMiddleware(token) \notin {Null, sh.sender}
          /\ RevokeStatus(token, sh.id) = 404

\* ------------------------------------------------------------------------
\* Properties of sessions and of the routers' middleware (SpecAuth)
\* ------------------------------------------------------------------------

\* C11: a token authenticates from the login that issued it until logout is
\* called with it; once logout was called with a token, GET /session and
\* every request behind the middleware that carries it is answered 401, in
\* every later state.
C11_SessionLifecycle ==
    /\ \A n \in 1..Len(issued) :
          TokenOf(n) \notin loggedOut =>
             /\ SessionStatus(TokenOf(n)) = 200
             /\ authMiddleware(TokenOf(n)) = issued[n]
    /\ \A t \in loggedOut :
          /\ SessionStatus(t) = 401
          /\ ShareStatus(t, 1, "bob", 0) = 401
          /\ \A id \in ShareIds : RevokeStatus(t, id) = 401
          /\ ReceiveStatus(t, "A1B2C3") = 401
          /\ \A id \in RecvIds : ViewStatus(t, id) = 401
    /\ (resp.bearer \in loggedOut /\ resp.route # "POST /logout") => resp.status = 401

\* A token POST /login issued was used, logged out, and then presented to
\* POST /share.
C11_Witness ==
    /\ resp.route = "POST /share"
    /\ resp.bearer = TokenOf(1)
    /\ resp.bearer \in loggedOut
    /\ resp.status = 401
    /\ user_settings # <<>>

\* The routes behind router.use(authMiddleware), and the tables they write.
ProtectedRoutes == FilesRoutes \cup {"GET /settings", "PUT /settings"}
ServerTables == <<sessions, file_history, shared_files, received_files, user_settings>>

\* C12: a request to a route of routes/files or routes/settings that carries
\* no bearer token, or a token that names no session row, is answered 401
\* and leaves every table as it was.
C12_ProtectedRoutesNeedSession ==
    [][(resp'.route \in ProtectedRoutes /\ resp'.bearer \notin DOMAIN sessions)
          => (resp'.status = 401 /\ UNCHANGED ServerTables)]_vars

\* A request without a bearer token was answered 401 while the tables held
\* rows it would have removed.
C12_Witness ==
    /\ resp.route = "DELETE /history"
    /\ resp.bearer = Null
    /\ resp.status = 401
    /\ file_history # {}

\* The verifier the users table would hold for an access key.
VerifierOf(accessKey) == "verifier-of-" \o accessKey

\* The credentials name no users row, or the access key does not match its
\* verifier.
Mismatch(req) ==
    ~\E row \in users : /\ row.id = req.researcherId
                        /\ row.password_hash = VerifierOf(req.accessKey)

\* C13: a login whose researcher id is unknown, or whose password does not
\* match the stored verifier, is answered with no token, and no session
\* exists for an identity without a users row.
C13_LoginRejectsMismatch ==
    /\ (resp.route = "POST /login" /\ Mismatch(resp.req)) =>
          (resp.status # 200 /\ resp.body = Null)
    /\ \A n \in 1..Len(issued) : \E row \in users : row.id = issued[n]

\* ------------------------------------------------------------------------
\* Properties of the key lifecycle (SpecKeys)
\* ------------------------------------------------------------------------

\* ReceiveModal.submit, FileViewer and ShareModal.submit before they unwrap:
\* kp = await getKyberKeypair(user.researcherId); if (!kp) throw.
keypairCheck(u) == IF hasKyberKeypair(u) THEN "proceeds" ELSE "NoKeypair"

\* C14: a login of an identity that already has a registered public key, on
\* a host without a keypair for it, generates no keypair, and a decrypt,
\* receive or re-share after it fails with NoKeypair.
C14_NoSilentRegeneration ==
    \A tab \in Tabs :
       (auth[tab].op = "login" /\ auth[tab].hasKyberKey) =>
          /\ ~auth[tab].fresh
          /\ (auth[tab].completed = "login" /\ auth[tab].researcherId \notin DOMAIN firstStored)
                => keypairCheck(auth[tab].researcherId) = "NoKeypair"

\* C15: when a login that found no local keypair completes, the keypair it
\* generated is in the key store and the registry holds its public half.
C15_FirstLoginUploadsKey ==
    \A tab \in Tabs :
       (auth[tab].completed = "login" /\ auth[tab].fresh) =>
          LET id == auth[tab].researcherId IN
          /\ hasKyberKeypair(id)
          /\ hasKyberKey(id)
          /\ getPublicKey(id) = uint8ToBase64(getKyberKeypair(id).publicKey)

\* No register or login of the identity is between its key store read and
\* its request to the registry.
Settled(id) == \A tab \in Tabs : auth[tab].researcherId = id => auth[tab].pc = "idle"

\* C16: whatever the interleaving of the ensureKyberKeys runs for one
\* identity, at most one keypair is generated for it, and once the runs are
\* over the public key handed to the registry is the public half of the
\* keypair in the key store.
C16_KeyGenerationSerialized ==
    /\ \A u \in Users : generated[u] <= 1
    /\ \A m \in sent :
          Settled(m.researcherId) =>
             /\ hasKyberKeypair(m.researcherId)
             /\ m.value = uint8ToBase64(getKyberKeypair(m.researcherId).publicKey)

\* A step of logout: the tab's user is cleared.
LogoutStep == \E tab \in Tabs : auth[tab].user # Null /\ auth'[tab].user = Null

\* A payload wrapped to the first keypair the store held for u unwraps
\* with the private key the store holds after the step.
StillUnwraps(u) ==
    LET aesKeyBytes == exportAESKey(1)
        wrapped == wrapAESKeyWithKyber(aesKeyBytes, firstStored[u].publicKey, 1)
        unwrapped == unwrapAESKeyWithKyber(wrapped.kemCiphertext, wrapped.wrappedKey,
                                           keystore'[u].privateKey)
    IN  unwrapped.ok /\ unwrapped.aesKeyBytes = aesKeyBytes

\* C17: logout leaves every stored keypair as it was, and through any
\* sequence of logouts and logins on the host the store keeps returning the
\* pair it held first for an identity, with which the owner wrap unwraps
\* (an identity for which two racing runs generated keypairs aside).
C17_LogoutKeepsKeystore ==
    [][/\ LogoutStep => keystore' = keystore
       /\ \A u \in DOMAIN keystore :
             /\ u \in DOMAIN keystore'
             /\ generated'[u] <= 1 =>
                   /\ keystore'[u] = keystore[u]
                   /\ keystore'[u] = firstStored[u]
                   /\ StillUnwraps(u)]_vars

\* carol logged in again on the host where an earlier session, now logged
\* out, generated her keypair, and the login found that keypair.
C17_Witness ==
    /\ \E tab \in Tabs :
          /\ auth[tab].completed = "login" /\ auth[tab].user = "carol"
          /\ ~auth[tab].fresh
          /\ \A other \in Tabs \ {tab} : auth[other] = TabIdle
    /\ generated["carol"] = 1
    /\ keystore["carol"] = firstStored["carol"]

\* Every private key a run can hold.
AllPrivateKeys ==
    {generateKyberKeypair(seed).privateKey : seed \in 1..FreshSeed(MaxKeypairs)}

\* needle occurs in hay as a run of consecutive bytes.
Contains(hay, needle) ==
    \E i \in 0..(Len(hay) - Len(needle)) :
       \A j \in 1..Len(needle) : hay[i + j] = needle[j]

\* The key material and payloads the server was sent or holds.
KeyMaterialAtServer ==
    {base64ToUint8(m.value) : m \in sent}
       \cup {base64ToUint8(registry[u]) : u \in DOMAIN registry}
       \cup {base64ToUint8(files[f].ownerKemCt) : f \in DOMAIN files}
       \cup {base64ToUint8(sh.kemCiphertext) : sh \in shares}
       \cup UNION {{base64ToUint8(g.kemCiphertexts[m]) : m \in DOMAIN g.kemCiphertexts} :
                     g \in group_shares}

ServerBytes == {files[f].blob : f \in DOMAIN files} \cup KeyMaterialAtServer

\* The payloads on the server, each with the identity it is addressed to.
AddressedPayloads ==
    {<<files[f].owner, files[f].ownerKemCt>> : f \in DOMAIN files}
       \cup {<<sh.recipientId, sh.kemCiphertext>> : sh \in shares}
       \cup UNION {{<<m, g.kemCiphertexts[m]>> : m \in DOMAIN g.kemCiphertexts} :
                     g \in group_shares}

\* The secrets of the clients: plaintexts, the DEKs drawn at upload, and for
\* every payload the shared secret and the key its addressee recovers.
ClientSecrets ==
    ({uploads[f].plaintext : f \in DOMAIN uploads}
        \cup {uploads[f].aesKeyBytes : f \in DOMAIN uploads}
        \cup {UnwrapPayload(p[2], keystore[p[1]].privateKey).aesKeyBytes :
                 p \in {q \in AddressedPayloads : q[1] \in DOMAIN keystore}}
        \cup {kyberDecapsulate(Slice(base64ToUint8(p[2]), 0,
                                     Len(base64ToUint8(p[2])) - KeyLen),
                               keystore[p[1]].privateKey).sharedSecret :
                 p \in {q \in AddressedPayloads : q[1] \in DOMAIN keystore}})
       \ {<<>>}

\* C18: no byte string the server was sent or holds after upload, direct
\* share, group share and receive contains a file's plaintext, a raw DEK or
\* a KEM shared secret, and no received row carries content.
C18_ServerIgnorance ==
    /\ LET held == ServerBytes
           secrets == ClientSecrets
       IN  \A bytes \in held : \A secret \in secrets : ~Contains(bytes, secret)
    /\ \A r \in received_files : r.content = Null

\* A file with a non-empty plaintext is on the server, shared directly and
\* with the group, and the recipient received and decrypted it.
C18_Witness ==
    /\ \E f \in DOMAIN uploads : uploads[f].plaintext # <<>>
    /\ shares # {}
    /\ group_shares # {}
    /\ lastOutcome.kind = "receive" /\ lastOutcome.ok

\* ------------------------------------------------------------------------
\* Properties of the payload split (SpecPayload)
\* ------------------------------------------------------------------------

\* C20: a payload whose length is not that of kem_ct || wrapped is rejected
\* with BadPayload before decapsulation or decryption is attempted.
C20_BadPayloadRejectedFirst ==
    (/\ probe.user # Null
     /\ hasKyberKeypair(probe.user)
     /\ probe.payloadLen > 0
     /\ probe.payloadLen # PayloadLen)
       => (probe.error = "BadPayload" /\ ~probe.decapsulated /\ ~probe.decrypted)

\* ------------------------------------------------------------------------
\* Properties of decryption over a tampered blob (SpecTamper)
\* ------------------------------------------------------------------------

\* The AES key u recovers from payload is not the key the file was
\* encrypted under.
WrongKey(u, payload, fileId) ==
    \/ ~hasKyberKeypair(u)
    \/ UnwrapPayload(payload, getKyberKeypair(u).privateKey).aesKeyBytes
          # uploads[fileId].aesKeyBytes

\* C21: the tag is mandatory.  When the downloaded blob differs from the
\* upload in its ciphertext-or-tag portion, or the recovered key is not the
\* file's, the receive flow and the viewer end in failure and hand out no
\* plaintext byte (no download, no blob URL, no decrypted blob).
C21_TagIsMandatory ==
    [][/\ \A u \in Users : \A f \in DOMAIN files :
             (/\ lastOutcome'.kind = "owner" /\ lastOutcome'.user = u
              /\ OwnerView(u, f)
              /\ \/ files[f].blob # UploadedBlob(f)
                 \/ WrongKey(u, files[f].ownerKemCt, f))
                => (~lastOutcome'.ok /\ lastOutcome'.plaintext = <<>>)
       /\ \A u \in Users : \A sh \in shares :
             (/\ lastOutcome'.kind = "receive" /\ lastOutcome'.user = u
              /\ sh.recipientId = u
              /\ ReceiveModalSubmit(u, sh.shareCode)
              /\ \/ files[sh.fileId].blob # UploadedBlob(sh.fileId)
                 \/ WrongKey(u, sh.kemCiphertext, sh.fileId))
                => (~lastOutcome'.ok /\ lastOutcome'.plaintext = <<>>)
      ]_vars

\* The addressed recipient, holding the file's key, received a file whose
\* blob has a flipped bit, and the receive failed.
C21_Witness ==
    /\ lastOutcome.kind = "receive"
    /\ lastOutcome.fileId \in DOMAIN files
    /\ files[lastOutcome.fileId].blob # UploadedBlob(lastOutcome.fileId)
    /\ \E sh \in shares :
          /\ sh.recipientId = lastOutcome.user
          /\ sh.fileId = lastOutcome.fileId
          /\ ~WrongKey(lastOutcome.user, sh.kemCiphertext, sh.fileId)
    /\ ~lastOutcome.ok
    /\ lastOutcome.plaintext = <<>>

\* ------------------------------------------------------------------------
\* Properties of the encrypt-and-upload run (SpecEncrypt)
\* ------------------------------------------------------------------------

\* C24: the steps of a successful encrypt-and-upload run happen in the
\* order DEK draw, IV draw, AES-GCM encrypt, SHA-256 fingerprint,
\* owner-wrap, upload.
C24_StepOrder ==
    encRun.pc = "Done" =>
       encRun.log = <<"KeyDraw", "IvDraw", "Encrypt", "Hash", "OwnerWrap", "Upload">>

\* C25: a plaintext over the maximum size is rejected before any key is
\* drawn.  A run on such a file performs no step: no DEK, no IV, no
\* encapsulation, no upload.
C25_OversizeRejectedFirst ==
    Len(encRun.plaintext) > MaxPlaintextSize => (encRun.log = <<>> /\ encRun.pc # "Done")

\* C27: the raw DEK is zeroized after use.  When the run has finished, in
\* Done or in Failed, the buffer that held the DEK holds no key byte.
C27_DekZeroized ==
    encRun.pc \in {"Done", "Failed"} =>
       \A i \in 1..Len(encRun.aesKeyBytes) : encRun.aesKeyBytes[i] = 0

\* ------------------------------------------------------------------------
\* Properties of a rejected registration (SpecKeys)
\* ------------------------------------------------------------------------

\* C28: a failed registration leaves the local keystore unchanged.  When
\* api.register is rejected, the run has put no keypair for the identifier
\* into the key store.
C28_FailedRegisterKeepsKeystore ==
    [][\A tab \in Tabs :
          (registerSubmit(tab) /\ auth'[tab].completed = "AlreadyExists")
             => ~(auth[tab].fresh /\ hasKyberKeypair(auth[tab].researcherId))]_vars

\* ------------------------------------------------------------------------
\* Properties of the stored token (SpecClient)
\* ------------------------------------------------------------------------

\* C29: the client never keeps a token the server has rejected.  When a
\* request answered 401 settles, the stored token is gone; when the
\* start-up session check fails, the stored token is gone and the user is
\* null; and the stored token is never one that was rejected.
C29_RejectedTokenCleared ==
    [][/\ \A slot \in Slots :
             (requestSettle(slot) /\ browser.reqs[slot].status = 401)
                => browser'.hb_token = Null
       /\ \A slot \in Slots :
             (/\ requestSettle(slot)
              /\ browser.reqs[slot].kind = "session"
              /\ browser.reqs[slot].status # 200)
                => (browser'.hb_token = Null /\ browser'.user = Null)
       /\ browser.hb_token \notin browser.rejected
       /\ browser'.hb_token \notin browser'.rejected
      ]_vars

\* alice's token was answered 401 after a logout and is gone from the
\* store, and a token of a later login is stored.
C29_Witness ==
    /\ "tokA" \in browser.rejected
    /\ browser.hb_token \notin {Null, "tokA", "stale"}

\* ------------------------------------------------------------------------
\* Properties of FileViewer's cancellation (SpecViewer)
\* ------------------------------------------------------------------------

\* C30: a run whose viewer was closed, or whose fileId was replaced, sets
\* neither the blob URL nor the decrypted blob nor the error afterwards:
\* no step of a cancelled run changes them, and a closed viewer holds none.
C30_CancelledRunSetsNothing ==
    [][/\ \A r \in Runs :
             (viewer.runs[r].cancelled /\ viewer'.runs[r].pc # viewer.runs[r].pc)
                => /\ viewer'.blobUrl = viewer.blobUrl
                   /\ viewer'.decryptedBlob = viewer.decryptedBlob
                   /\ viewer'.error = viewer.error
       /\ ~viewer'.mounted
             => (viewer'.blobUrl = <<>> /\ viewer'.decryptedBlob = <<>>
                   /\ viewer'.error = <<>>)
      ]_vars

\* A run was cancelled at one of its awaits and has since ended, and a
\* later run has shown its file.
C30_Witness ==
    \E r \in Runs :
        /\ viewer.runs[r].cancelled
        /\ viewer.runs[r].pc = Len(Awaits) + 1
        /\ viewer.blobUrl # <<>>
        /\ viewer.blobUrl[1] # r

====
